------------------------- MODULE SharedAccounts_proofs -------------------------
(* Theorems about the lists of a user and the decisions of a connection, for  *)
(* any number of lists, requests, accounts, rows and replaced lists.          *)
EXTENDS SharedAccounts, FiniteSetTheorems, WellFoundedInduction, TLAPS

(* The lists of a user: definitions of AccountLists are those of User. *)

LEMMA SameFinite == \A S : User!IsFiniteSet(S) = IsFiniteSet(S)
  BY DEF User!IsFiniteSet, IsFiniteSet

LEMMA SameCardinality == ASSUME NEW S PROVE User!Cardinality(S) = Cardinality(S)
  BY DEF User!Cardinality, Cardinality

LEMMA ListsConstants ==
    /\ IsFiniteSet(Requests) /\ NoList \notin Lists
    /\ User!InFlight = Cardinality(Requests) /\ User!InFlight \in Nat
  <1>1. IsFiniteSet(Requests) /\ NoList \notin Lists
    BY PartsAssumption, SameFinite DEF User!ListsAssumption
  <1>2. User!InFlight = Cardinality(Requests)
    BY SameCardinality DEF User!InFlight
  <1> QED BY <1>1, <1>2, FS_CardinalityType

\* What is left of the scripts, by whether the request counts the matches.
Uncounted == {<<>>, <<"createRows">>, <<"deleteRows", "createRows">>, <<"deleteList">>}
Counting == {<<"deleteRows", "createRows", "remap">>, <<"createRows", "remap">>,
             <<"archive", "activate", "remap">>, <<"activate", "remap">>, <<"remap">>,
             <<"deleteList", "resetObserved">>, <<"resetObserved">>}
Left(counts) == IF counts THEN Counting ELSE Uncounted

LEMMA Tuples ==
    ASSUME NEW S, NEW a \in S, NEW b \in S, NEW c \in S
    PROVE  {<<>>, <<a>>, <<a, b>>, <<a, b, c>>} \subseteq Seq(S)
  OBVIOUS

LEMMA LeftTyped ==
    ASSUME NEW counts \in BOOLEAN, NEW todo \in Left(counts)
    PROVE  todo \in Seq(User!Statements)
  <1>1. \A a, b, c \in User!Statements :
            {<<>>, <<a>>, <<a, b>>, <<a, b, c>>} \subseteq Seq(User!Statements)
    BY Tuples
  <1>2. {"createRows", "deleteRows", "archive", "activate", "remap", "deleteList",
         "resetObserved"} \subseteq User!Statements
    BY DEF User!Statements
  <1> QED BY <1>1, <1>2 DEF Left, Uncounted, Counting

LEMMA LeftTails ==
    ASSUME NEW counts \in BOOLEAN, NEW todo \in Left(counts), todo # <<>>
    PROVE  IF Len(todo) = 1 THEN Tail(todo) = <<>>
           ELSE Tail(todo) # <<>> /\ Tail(todo) \in Left(counts)
  <1>1. \A a : Len(<<a>>) = 1 /\ Tail(<<a>>) = <<>>
    OBVIOUS
  <1>2. \A a, b : Len(<<a, b>>) # 1 /\ Tail(<<a, b>>) = <<b>> /\ <<b>> # <<>>
    OBVIOUS
  <1>3. \A a, b, c : Len(<<a, b, c>>) # 1 /\ Tail(<<a, b, c>>) = <<b, c>> /\ <<b, c>> # <<>>
    OBVIOUS
  <1>4. CASE counts
    <2>1. todo \in Counting
      BY <1>4 DEF Left
    <2> SUFFICES IF Len(todo) = 1 THEN Tail(todo) = <<>>
                 ELSE Tail(todo) # <<>> /\ Tail(todo) \in Counting
      BY <1>4 DEF Left
    <2>2. CASE todo = <<"deleteRows", "createRows", "remap">>
      <3>1. Len(todo) # 1 /\ Tail(todo) = <<"createRows", "remap">>
        BY <2>2, <1>3
      <3> QED BY <3>1, <1>3, Zenon DEF Counting
    <2>3. CASE todo = <<"archive", "activate", "remap">>
      <3>1. Len(todo) # 1 /\ Tail(todo) = <<"activate", "remap">>
        BY <2>3, <1>3
      <3> QED BY <3>1, <1>3, Zenon DEF Counting
    <2>4. CASE todo \in {<<"createRows", "remap">>, <<"activate", "remap">>,
                         <<"deleteList", "resetObserved">>}
      BY <2>4, <1>2, Zenon DEF Counting
    <2>5. CASE todo \in {<<"remap">>, <<"resetObserved">>}
      BY <2>5, <1>1, Zenon DEF Counting
    <2> QED BY <2>1, <2>2, <2>3, <2>4, <2>5, Zenon DEF Counting
  <1>5. CASE ~counts
    <2>1. todo \in Uncounted
      BY <1>5 DEF Left
    <2> SUFFICES IF Len(todo) = 1 THEN Tail(todo) = <<>>
                 ELSE Tail(todo) # <<>> /\ Tail(todo) \in Uncounted
      BY <1>5 DEF Left
    <2> QED BY <2>1, <1>1, <1>2, Zenon DEF Uncounted
  <1> QED BY <1>4, <1>5

\* What follows what in them, and which statements end one.
Following == {<<"deleteRows", "createRows">>, <<"createRows", "remap">>,
              <<"archive", "activate">>, <<"activate", "remap">>,
              <<"deleteList", "resetObserved">>}

LEMMA LeftFollow ==
    ASSUME NEW counts \in BOOLEAN, NEW todo \in Left(counts), todo # <<>>
    PROVE  /\ Tail(todo) # <<>> => <<Head(todo), Head(Tail(todo))>> \in Following
           /\ Tail(todo) = <<>> =>
                  IF counts THEN Head(todo) \in {"remap", "resetObserved"}
                  ELSE Head(todo) \in {"createRows", "deleteList"}
  <1>1. \A a : Head(<<a>>) = a /\ Tail(<<a>>) = <<>>
    OBVIOUS
  <1>2. \A a, b : Head(<<a, b>>) = a /\ Tail(<<a, b>>) = <<b>> /\ <<b>> # <<>>
    OBVIOUS
  <1>3. \A a, b, c : /\ Head(<<a, b, c>>) = a /\ Tail(<<a, b, c>>) = <<b, c>>
                     /\ <<b, c>> # <<>>
    OBVIOUS
  <1>4. \A a, b, c : /\ todo = <<a, b, c>> => Tail(todo) # <<>> /\ Head(todo) = a
                                              /\ Head(Tail(todo)) = b
                     /\ todo = <<a, b>> => Tail(todo) # <<>> /\ Head(todo) = a
                                           /\ Head(Tail(todo)) = b
                     /\ todo = <<a>> => Tail(todo) = <<>> /\ Head(todo) = a
    <2> TAKE a, b, c
    <2>1. ASSUME todo = <<a, b, c>>
          PROVE  Tail(todo) # <<>> /\ Head(todo) = a /\ Head(Tail(todo)) = b
      <3>1. Tail(todo) = <<b, c>> /\ Head(todo) = a /\ <<b, c>> # <<>>
        BY <2>1, <1>3
      <3>2. Head(<<b, c>>) = b
        BY <1>2
      <3> QED BY <3>1, <3>2
    <2>2. ASSUME todo = <<a, b>>
          PROVE  Tail(todo) # <<>> /\ Head(todo) = a /\ Head(Tail(todo)) = b
      <3>1. Tail(todo) = <<b>> /\ Head(todo) = a /\ <<b>> # <<>>
        BY <2>2, <1>2
      <3>2. Head(<<b>>) = b
        BY <1>1
      <3> QED BY <3>1, <3>2
    <2>3. todo = <<a>> => Tail(todo) = <<>> /\ Head(todo) = a
      BY <1>1, Zenon
    <2> QED BY <2>1, <2>2, <2>3
  <1>5. CASE counts
    <2>1. todo \in Counting
      BY <1>5 DEF Left
    <2>2. CASE Tail(todo) = <<>>
      <3>1. todo \in {<<"remap">>, <<"resetObserved">>}
        BY <2>1, <2>2, <1>4, Zenon DEF Counting
      <3> QED BY <3>1, <2>2, <1>4, <1>5, Zenon
    <2>3. CASE Tail(todo) # <<>>
      <3>1. CASE todo \in {<<"deleteRows", "createRows", "remap">>,
                           <<"archive", "activate", "remap">>}
        BY <3>1, <2>3, <1>4, Zenon DEF Following
      <3>2. CASE todo \in {<<"createRows", "remap">>, <<"activate", "remap">>,
                           <<"deleteList", "resetObserved">>}
        BY <3>2, <2>3, <1>4, Zenon DEF Following
      <3>3. CASE todo \in {<<"remap">>, <<"resetObserved">>}
        BY <3>3, <2>3, <1>4, Zenon
      <3> QED BY <3>1, <3>2, <3>3, <2>1, Zenon DEF Counting
    <2> QED BY <2>2, <2>3
  <1>6. CASE ~counts
    <2>1. todo \in {<<"createRows">>, <<"deleteRows", "createRows">>, <<"deleteList">>}
      BY <1>6 DEF Left, Uncounted
    <2> QED BY <2>1, <1>4, <1>6, Zenon DEF Following
  <1> QED BY <1>5, <1>6

Scripted ==
    \A r \in Requests :
        /\ req[r].todo \in Left(req[r].counts)
        /\ req[r].todo # <<>> => req[r].list \in Lists

\* The order of the active lists, apart from the variables.
Ordered(lists, later) ==
    /\ later \subseteq lists \X lists
    /\ \A L, M \in lists : L # M => (<<L, M>> \in later <=> <<M, L>> \notin later)
    /\ \A L, M, N \in lists : {<<L, M>>, <<M, N>>} \subseteq later => <<L, N>> \in later
    /\ \A L \in lists : <<L, L>> \notin later

LEMMA OrderKept ==
    ASSUME NEW lists, NEW later, Ordered(lists, later), NEW fewer \in SUBSET lists
    PROVE  Ordered(fewer, later \cap (fewer \X fewer))
  BY DEF Ordered

LEMMA OrderExtended ==
    ASSUME NEW lists, NEW later, Ordered(lists, later), NEW L
    PROVE  Ordered(lists \cup {L}, (later \cap ((lists \ {L}) \X (lists \ {L})))
                                   \cup ({L} \X (lists \ {L})))
  <1> DEFINE others == lists \ {L}
             ext == (later \cap (others \X others)) \cup ({L} \X others)
  <1>1. ext \subseteq (lists \cup {L}) \X (lists \cup {L})
    OBVIOUS
  <1>2. \A M \in others : <<L, M>> \in ext /\ <<M, L>> \notin ext
    OBVIOUS
  <1>3. \A M, N \in others : <<M, N>> \in ext <=> <<M, N>> \in later
    OBVIOUS
  <1>4. <<L, L>> \notin ext
    OBVIOUS
  <1>5. \A M, N \in lists \cup {L} :
            M # N => (<<M, N>> \in ext <=> <<N, M>> \notin ext)
    <2> HIDE DEF ext
    <2> QED BY <1>2, <1>3 DEF Ordered
  <1>6. \A M \in lists \cup {L} : <<M, M>> \notin ext
    <2> HIDE DEF ext
    <2> QED BY <1>3, <1>4 DEF Ordered
  <1>7. \A K, M, N \in lists \cup {L} :
            {<<K, M>>, <<M, N>>} \subseteq ext => <<K, N>> \in ext
    <2> SUFFICES ASSUME NEW K \in lists \cup {L}, NEW M \in lists \cup {L},
                        NEW N \in lists \cup {L}, <<K, M>> \in ext, <<M, N>> \in ext
                 PROVE  <<K, N>> \in ext
      OBVIOUS
    <2> HIDE DEF ext
    <2>1. M \in others /\ N \in others
      BY <1>2, <1>4
    <2>2. CASE K = L
      BY <2>1, <2>2, <1>2
    <2>3. CASE K \in others
      BY <2>1, <2>3, <1>3 DEF Ordered
    <2> QED BY <2>2, <2>3
  <1> QED BY <1>1, <1>5, <1>6, <1>7 DEF Ordered

------------------------------------------------------------------------------
(* What the four ways to move on do with the requests *)

Untouched(r) == \A q \in Requests \ {r} : req'[q] = req[q]

LEMMA Continued ==
    ASSUME User!TypeOK, Scripted, NEW r \in Requests, req[r].todo # <<>>, User!Continue(r)
    PROVE  /\ req' \in [Requests -> User!Request] /\ Scripted' /\ Untouched(r)
           /\ req'[r].todo = Tail(req[r].todo)
           /\ req'[r].todo # <<>> =>
                  req'[r].list = req[r].list /\ req'[r].counts = req[r].counts
  <1>1. /\ req \in [Requests -> User!Request]
        /\ req[r].todo \in Seq(User!Statements) /\ req[r].counts \in BOOLEAN
        /\ req[r].list \in Lists
        /\ req[r].todo \in Left(req[r].counts)
    BY DEF User!TypeOK, User!Request, Scripted
  <1>2. CASE Len(req[r].todo) = 1
    <2>1. req' = [req EXCEPT ![r] = User!Idle]
      BY <1>2 DEF User!Continue, User!End
    <2>2. Tail(req[r].todo) = <<>>
      BY <1>1, <1>2, LeftTails
    <2>3. User!Idle \in User!Request /\ User!Idle.todo = <<>> /\ ~User!Idle.counts
      BY DEF User!Idle, User!Request
    <2>4. req' \in [Requests -> User!Request] /\ Untouched(r) /\ req'[r] = User!Idle
      BY <2>1, <2>3, <1>1 DEF Untouched
    <2>5. Scripted'
      BY <2>3, <2>4 DEF Scripted, Untouched, Left, Uncounted
    <2> QED BY <2>2, <2>3, <2>4, <2>5
  <1>3. CASE Len(req[r].todo) # 1
    <2> DEFINE rest == Tail(req[r].todo)
    <2>1. req' = [req EXCEPT ![r].todo = rest]
      BY <1>3, <1>1 DEF User!Continue
    <2>2. rest \in Seq(User!Statements) /\ rest \in Left(req[r].counts) /\ rest # <<>>
      BY <1>1, <1>3, LeftTails, LeftTyped
    <2> HIDE DEF rest
    <2>3. /\ req' \in [Requests -> User!Request] /\ Untouched(r)
          /\ req'[r] = [req[r] EXCEPT !.todo = rest]
      BY <2>1, <2>2, <1>1 DEF Untouched, User!Request
    <2>4. /\ req'[r].todo = rest /\ req'[r].list = req[r].list
          /\ req'[r].counts = req[r].counts
      BY <2>3, <1>1 DEF User!Request
    <2>5. Scripted'
      BY <2>2, <2>3, <2>4, <1>1 DEF Scripted, Untouched
    <2> QED BY <2>3, <2>4, <2>5 DEF rest
  <1> QED BY <1>2, <1>3

LEMMA Ended ==
    ASSUME User!TypeOK, Scripted, NEW r \in Requests, User!End(r)
    PROVE  /\ req' \in [Requests -> User!Request] /\ Scripted' /\ Untouched(r)
           /\ req'[r] = User!Idle /\ req'[r].todo = <<>>
  <1>1. req \in [Requests -> User!Request]
    BY DEF User!TypeOK
  <1>2. User!Idle \in User!Request /\ User!Idle.todo = <<>> /\ ~User!Idle.counts
    BY DEF User!Idle, User!Request
  <1>3. req' \in [Requests -> User!Request] /\ Untouched(r) /\ req'[r] = User!Idle
    BY <1>1, <1>2 DEF User!End, Untouched
  <1>4. Scripted'
    BY <1>2, <1>3 DEF Scripted, Untouched, Left, Uncounted
  <1> QED BY <1>2, <1>3, <1>4

LEMMA Begun ==
    ASSUME User!TypeOK, Scripted, NEW r \in Requests, NEW L \in Lists, NEW todo,
           NEW counts \in BOOLEAN, todo \in Left(counts), User!Begin(r, L, todo, counts)
    PROVE  /\ req' \in [Requests -> User!Request] /\ Scripted' /\ Untouched(r)
           /\ req[r].todo = <<>>
           /\ req'[r].todo = todo /\ req'[r].list = L /\ req'[r].counts = counts
  <1> DEFINE new == [todo |-> todo, list |-> L, counts |-> counts]
  <1>1. req \in [Requests -> User!Request]
    BY DEF User!TypeOK
  <1>2. todo \in Seq(User!Statements)
    BY LeftTyped
  <1>3. new \in User!Request
    BY <1>2 DEF User!Request
  <1>4. req' \in [Requests -> User!Request] /\ Untouched(r) /\ req'[r] = new
    BY <1>1, <1>3 DEF User!Begin, Untouched
  <1>5. Scripted'
    BY <1>4 DEF Scripted, Untouched
  <1> QED BY <1>4, <1>5 DEF User!Begin

LEMMA Dropped ==
    ASSUME req' = [r \in Requests |-> User!Idle]
    PROVE  /\ req' \in [Requests -> User!Request] /\ Scripted'
           /\ \A r \in Requests : req'[r].todo = <<>> /\ req'[r] = User!Idle
  <1>1. User!Idle \in User!Request /\ User!Idle.todo = <<>> /\ ~User!Idle.counts
    BY DEF User!Idle, User!Request
  <1> QED BY <1>1 DEF Scripted, Left, Uncounted

\* After a statement, its request is at the one that follows, or done.
LEMMA ContinuedAt ==
    ASSUME User!TypeOK, Scripted, NEW r \in Requests, NEW s, User!At(r, s), User!Continue(r)
    PROVE  /\ req'[r].todo # <<>> => <<s, Head(req'[r].todo)>> \in Following
           /\ req'[r].todo = <<>> =>
                  IF req[r].counts THEN s \in {"remap", "resetObserved"}
                  ELSE s \in {"createRows", "deleteList"}
  <1>1. req[r].todo # <<>> /\ Head(req[r].todo) = s
    BY DEF User!At
  <1>2. req'[r].todo = Tail(req[r].todo)
    BY <1>1, Continued
  <1>3. req[r].todo \in Left(req[r].counts) /\ req[r].counts \in BOOLEAN
    BY DEF Scripted, User!TypeOK, User!Request
  <1> QED BY <1>1, <1>2, <1>3, LeftFollow

------------------------------------------------------------------------------
(* Types *)

LEMMA ListsInitTyped == User!Init => User!TypeOK /\ Scripted
  <1> SUFFICES ASSUME User!Init PROVE User!TypeOK /\ Scripted
    OBVIOUS
  <1>1. User!Active = {}
    BY DEF User!Init, User!Active
  <1>2. User!Idle \in User!Request /\ User!Idle.todo = <<>> /\ ~User!Idle.counts
    BY DEF User!Idle, User!Request
  <1>3. req \in [Requests -> User!Request] /\ Scripted
    BY <1>2 DEF User!Init, Scripted, Left, Uncounted
  <1>4. batches \in [Lists -> 0..(User!InFlight + 1)] /\ status \in [Lists -> User!Statuses]
    BY ListsConstants DEF User!Init, User!Statuses
  <1> QED BY <1>1, <1>3, <1>4 DEF User!TypeOK, User!Init

LEMMA HistoriesTyped ==
    ASSUME {unserved, stale, missed} \subseteq BOOLEAN, User!Next
    PROVE  {unserved', stale', missed'} \subseteq BOOLEAN
  <1> USE DEF User!Changed, User!Counted, User!BrokenOff, User!Unchanged
  <1>1. ASSUME NEW r \in Requests, NEW L \in Lists, User!Arrive(r, L)
        PROVE  {unserved', stale', missed'} \subseteq BOOLEAN
    BY <1>1 DEF User!Arrive, User!UploadFile, User!UpdateAccounts, User!PublishAccountList,
                User!DeleteAccountList
  <1>2. ASSUME NEW r \in Requests, User!Serve(r)
        PROVE  {unserved', stale', missed'} \subseteq BOOLEAN
    BY <1>2 DEF User!Serve, User!DeleteRows, User!CreateRows, User!ArchiveOthers,
                User!Activate, User!Remap, User!DeleteList, User!ResetObserved
  <1>3. CASE User!Restart
    BY <1>3 DEF User!Restart
  <1> QED BY <1>1, <1>2, <1>3 DEF User!Next

LEMMA ScriptsLeft ==
    /\ <<"createRows">> \in Left(FALSE) /\ User!PublishScript \in Left(TRUE)
    /\ \A seen : /\ User!UpdateScript(seen) \in Left(seen = "active")
                 /\ User!DeleteScript(seen) \in Left(seen = "active")
  BY DEF Left, Counting, Uncounted, User!PublishScript, User!UpdateScript, User!DeleteScript

LEMMA ArrivalBegins ==
    ASSUME User!TypeOK, Scripted, NEW r \in Requests, NEW L \in Lists, User!Arrive(r, L)
    PROVE  /\ req' \in [Requests -> User!Request] /\ Scripted' /\ Untouched(r)
           /\ req[r].todo = <<>>
           /\ req'[r].todo # <<>> /\ req'[r].list = L
           /\ \/ Head(req'[r].todo) \in {"deleteRows", "archive", "deleteList"}
              \/ Head(req'[r].todo) = "createRows" /\ User!UploadFile(r, L)
  <1>1. \A a, b, c : /\ <<a>> # <<>> /\ Head(<<a>>) = a
                     /\ <<a, b>> # <<>> /\ Head(<<a, b>>) = a
                     /\ <<a, b, c>> # <<>> /\ Head(<<a, b, c>>) = a
    OBVIOUS
  <1>2. CASE User!UploadFile(r, L)
    <2>1. User!Begin(r, L, <<"createRows">>, FALSE)
      BY <1>2 DEF User!UploadFile
    <2>2. /\ req' \in [Requests -> User!Request] /\ Scripted' /\ Untouched(r)
          /\ req[r].todo = <<>> /\ req'[r].todo = <<"createRows">> /\ req'[r].list = L
      BY <2>1, Begun, ScriptsLeft
    <2> QED BY <1>1, <1>2, <2>2
  <1>3. CASE User!UpdateAccounts(r, L)
    <2>1. User!Begin(r, L, User!UpdateScript(status[L]), status[L] = "active")
      BY <1>3 DEF User!UpdateAccounts
    <2>2. User!UpdateScript(status[L]) # <<>> /\ Head(User!UpdateScript(status[L])) = "deleteRows"
      BY <1>1 DEF User!UpdateScript
    <2>3. /\ req' \in [Requests -> User!Request] /\ Scripted' /\ Untouched(r)
          /\ req[r].todo = <<>> /\ req'[r].todo = User!UpdateScript(status[L]) /\ req'[r].list = L
      <3>1. (status[L] = "active") \in BOOLEAN
        OBVIOUS
      <3>2. User!UpdateScript(status[L]) \in Left(status[L] = "active")
        BY ScriptsLeft, Zenon
      <3> QED BY <2>1, <3>1, <3>2, Begun, Zenon
    <2> QED BY <2>2, <2>3
  <1>4. CASE User!PublishAccountList(r, L)
    <2>1. User!Begin(r, L, User!PublishScript, TRUE)
      BY <1>4 DEF User!PublishAccountList
    <2>2. User!PublishScript # <<>> /\ Head(User!PublishScript) = "archive"
      BY <1>1 DEF User!PublishScript
    <2>3. /\ req' \in [Requests -> User!Request] /\ Scripted' /\ Untouched(r)
          /\ req[r].todo = <<>> /\ req'[r].todo = User!PublishScript /\ req'[r].list = L
      BY <2>1, Begun, ScriptsLeft
    <2> QED BY <2>2, <2>3
  <1>5. CASE User!DeleteAccountList(r, L)
    <2>1. User!Begin(r, L, User!DeleteScript(status[L]), status[L] = "active")
      BY <1>5 DEF User!DeleteAccountList
    <2>2. User!DeleteScript(status[L]) # <<>> /\ Head(User!DeleteScript(status[L])) = "deleteList"
      BY <1>1 DEF User!DeleteScript
    <2>3. /\ req' \in [Requests -> User!Request] /\ Scripted' /\ Untouched(r)
          /\ req[r].todo = <<>> /\ req'[r].todo = User!DeleteScript(status[L]) /\ req'[r].list = L
      <3>1. (status[L] = "active") \in BOOLEAN
        OBVIOUS
      <3>2. User!DeleteScript(status[L]) \in Left(status[L] = "active")
        BY ScriptsLeft, Zenon
      <3> QED BY <2>1, <3>1, <3>2, Begun, Zenon
    <2> QED BY <2>2, <2>3
  <1> QED BY <1>2, <1>3, <1>4, <1>5 DEF User!Arrive

LEMMA RequestsTyped ==
    ASSUME User!TypeOK, Scripted, User!Next
    PROVE  req' \in [Requests -> User!Request] /\ Scripted'
  <1>1. ASSUME NEW r \in Requests, NEW L \in Lists, User!Arrive(r, L)
        PROVE  req' \in [Requests -> User!Request] /\ Scripted'
    BY <1>1, ArrivalBegins
  <1>2. ASSUME NEW r \in Requests, User!Serve(r)
        PROVE  req' \in [Requests -> User!Request] /\ Scripted'
    <2>1. req[r].todo # <<>> /\ (User!Continue(r) \/ User!End(r))
      BY <1>2 DEF User!Serve, User!DeleteRows, User!CreateRows, User!ArchiveOthers,
         User!Activate, User!Remap, User!DeleteList, User!ResetObserved, User!At
    <2> QED BY <2>1, Continued, Ended
  <1>3. CASE User!Restart
    BY <1>3, Dropped DEF User!Restart
  <1> QED BY <1>1, <1>2, <1>3 DEF User!Next

\* The list a request works on is one.
LEMMA AtList ==
    ASSUME Scripted, NEW r \in Requests, NEW s, User!At(r, s)
    PROVE  User!List(r) \in Lists /\ User!List(r) # NoList
  BY ListsConstants DEF Scripted, User!At, User!List

LEMMA ColumnsTyped ==
    ASSUME User!TypeOK, Scripted, User!Next
    PROVE  /\ status' \in [Lists -> User!Statuses]
           /\ batches' \in [Lists -> 0..(User!InFlight + 1)]
           /\ published' \in Lists \cup {NoList}
           /\ unwritten' \subseteq Lists
  <1>1. /\ status \in [Lists -> User!Statuses]
        /\ batches \in [Lists -> 0..(User!InFlight + 1)]
        /\ published \in Lists \cup {NoList} /\ unwritten \subseteq Lists
        /\ User!InFlight \in Nat
    BY ListsConstants DEF User!TypeOK
  <1>2. {"absent", "draft", "active", "archived"} = User!Statuses
    BY DEF User!Statuses
  <1>3. ASSUME NEW r \in Requests, NEW L \in Lists, User!Arrive(r, L)
        PROVE  /\ status' \in [Lists -> User!Statuses]
               /\ UNCHANGED <<batches, published, unwritten>>
    BY <1>1, <1>2, <1>3 DEF User!Arrive, User!UploadFile, User!UpdateAccounts,
       User!PublishAccountList, User!DeleteAccountList
  <1>4. ASSUME NEW r \in Requests, User!DeleteRows(r)
        PROVE  /\ batches' \in [Lists -> 0..(User!InFlight + 1)]
               /\ UNCHANGED <<status, published, unwritten>>
    <2>1. 0 \in 0..(User!InFlight + 1) /\ User!List(r) \in Lists
      BY <1>1, <1>4, AtList DEF User!DeleteRows
    <2> QED BY <2>1, <1>1, <1>4 DEF User!DeleteRows, User!RowsDeleted
  <1>5. ASSUME NEW r \in Requests, User!CreateRows(r)
        PROVE  /\ batches' \in [Lists -> 0..(User!InFlight + 1)]
               /\ UNCHANGED <<status, published>> /\ unwritten' \subseteq Lists
    <2>1. User!List(r) \in Lists /\ User!Unwritten(User!List(r)) \subseteq Lists
      BY <1>1, <1>5, AtList DEF User!CreateRows, User!Unwritten
    <2> QED BY <2>1, <1>1, <1>5 DEF User!CreateRows
  <1>6. ASSUME NEW r \in Requests, User!ArchiveOthers(r)
        PROVE  /\ status' \in [Lists -> User!Statuses]
               /\ UNCHANGED <<batches, published, unwritten>>
    BY <1>1, <1>2, <1>6 DEF User!ArchiveOthers
  <1>7. ASSUME NEW r \in Requests, User!Activate(r)
        PROVE  /\ status' \in [Lists -> User!Statuses] /\ UNCHANGED <<batches, unwritten>>
               /\ published' \in Lists \cup {NoList}
    BY <1>1, <1>2, <1>7, AtList DEF User!Activate
  <1>8. ASSUME NEW r \in Requests, User!DeleteList(r)
        PROVE  /\ status' \in [Lists -> User!Statuses]
               /\ batches' \in [Lists -> 0..(User!InFlight + 1)]
               /\ published' \in Lists \cup {NoList} /\ unwritten' \subseteq Lists
    BY <1>1, <1>2, <1>8, AtList DEF User!DeleteList
  <1>9. ASSUME NEW r \in Requests, User!Remap(r) \/ User!ResetObserved(r)
        PROVE  UNCHANGED <<status, batches, published, unwritten>>
    BY <1>9 DEF User!Remap, User!ResetObserved
  <1>10. CASE User!Restart
    <2>1. {User!List(r) : r \in {q \in Requests : User!At(q, "createRows")}} \subseteq Lists
      BY AtList
    <2> QED BY <2>1, <1>1, <1>10 DEF User!Restart
  <1> QED BY <1>1, <1>3, <1>4, <1>5, <1>6, <1>7, <1>8, <1>9, <1>10 DEF User!Next, User!Serve

\* What changes which lists are active, and their order.
LEMMA ActiveSteps ==
    ASSUME User!TypeOK, Scripted, User!Next
    PROVE  \/ User!Active' = User!Active /\ newer' = newer
           \/ \E r \in Requests :
                  /\ User!Active' \subseteq User!Active
                  /\ newer' = newer \cap (User!Active' \X User!Active')
                  /\ \/ User!ArchiveOthers(r) /\ User!Active' \subseteq {User!List(r)}
                     \/ User!DeleteList(r) /\ User!Active' = User!Active \ {User!List(r)}
           \/ \E r \in Requests :
                  /\ User!Activate(r) /\ published' = User!List(r)
                  /\ User!Active' = User!Active \cup {User!List(r)}
                  /\ newer' = User!Activated(User!List(r))
  <1>1. status \in [Lists -> User!Statuses] /\ Ordered(User!Active, newer)
    BY DEF User!TypeOK, Ordered
  <1>2. ASSUME NEW r \in Requests, NEW L \in Lists, User!Arrive(r, L)
        PROVE  User!Active' = User!Active /\ newer' = newer
    BY <1>1, <1>2 DEF User!Arrive, User!UploadFile, User!UpdateAccounts,
       User!PublishAccountList, User!DeleteAccountList, User!Active
  <1>3. ASSUME NEW r \in Requests, User!DeleteRows(r) \/ User!CreateRows(r) \/ User!Remap(r)
                                   \/ User!ResetObserved(r)
        PROVE  User!Active' = User!Active /\ newer' = newer
    BY <1>3 DEF User!DeleteRows, User!CreateRows, User!Remap, User!ResetObserved, User!Active
  <1>4. ASSUME NEW r \in Requests, User!ArchiveOthers(r)
        PROVE  /\ User!Active' \subseteq User!Active /\ User!Active' \subseteq {User!List(r)}
               /\ newer' = newer \cap (User!Active' \X User!Active')
    <2>1. User!Active' = User!Active \cap {User!List(r)}
      BY <1>1, <1>4 DEF User!ArchiveOthers, User!Active
    <2>2. newer' = newer \cap ({User!List(r)} \X {User!List(r)})
      BY <1>4 DEF User!ArchiveOthers, User!Among
    <2>3. newer' = newer \cap (User!Active' \X User!Active')
      BY <1>1, <2>1, <2>2 DEF Ordered
    <2> QED BY <2>1, <2>3
  <1>5. ASSUME NEW r \in Requests, User!DeleteList(r)
        PROVE  \/ User!Active' = User!Active /\ newer' = newer
               \/ /\ User!Active' = User!Active \ {User!List(r)}
                  /\ newer' = newer \cap (User!Active' \X User!Active')
    <2>1. CASE status[User!List(r)] = "absent"
      BY <1>5, <2>1 DEF User!DeleteList, User!Active
    <2>2. CASE status[User!List(r)] # "absent"
      <3>1. User!Active' = User!Active \ {User!List(r)}
        BY <1>1, <1>5, <2>2 DEF User!DeleteList, User!Active
      <3> QED BY <1>5, <2>2, <3>1 DEF User!DeleteList, User!Among
    <2> QED BY <2>1, <2>2
  <1>6. ASSUME NEW r \in Requests, User!Activate(r)
        PROVE  \/ User!Active' = User!Active /\ newer' = newer
               \/ /\ User!Active' = User!Active \cup {User!List(r)}
                  /\ newer' = User!Activated(User!List(r)) /\ published' = User!List(r)
    <2>1. CASE status[User!List(r)] = "absent"
      BY <1>6, <2>1 DEF User!Activate, User!Active
    <2>2. CASE status[User!List(r)] # "absent"
      <3>1. User!List(r) \in Lists
        BY <1>6, AtList DEF User!Activate
      <3>2. status' = [status EXCEPT ![User!List(r)] = "active"]
        BY <1>6, <2>2 DEF User!Activate
      <3>3. User!Active' = User!Active \cup {User!List(r)}
        BY <1>1, <3>1, <3>2 DEF User!Active
      <3> QED BY <1>6, <2>2, <3>3 DEF User!Activate
    <2> QED BY <2>1, <2>2
  <1>7. CASE User!Restart
    BY <1>7 DEF User!Restart, User!Active
  <1> QED BY <1>2, <1>3, <1>4, <1>5, <1>6, <1>7 DEF User!Next, User!Serve

LEMMA OrderTyped ==
    ASSUME User!TypeOK, Scripted, User!Next
    PROVE  Ordered(User!Active', newer')
  <1>1. Ordered(User!Active, newer)
    BY DEF User!TypeOK, Ordered
  <1>2. CASE User!Active' = User!Active /\ newer' = newer
    BY <1>1, <1>2
  <1>3. CASE User!Active' \subseteq User!Active
             /\ newer' = newer \cap (User!Active' \X User!Active')
    <2>1. Ordered(User!Active', newer \cap (User!Active' \X User!Active'))
      BY <1>1, <1>3, OrderKept
    <2> QED BY <1>3, <2>1
  <1>4. ASSUME NEW L, User!Active' = User!Active \cup {L}, newer' = User!Activated(L)
        PROVE  Ordered(User!Active', newer')
    <2>1. newer' = (newer \cap ((User!Active \ {L}) \X (User!Active \ {L})))
                   \cup ({L} \X (User!Active \ {L}))
      BY <1>4 DEF User!Activated, User!Among
    <2>2. Ordered(User!Active \cup {L}, (newer \cap ((User!Active \ {L}) \X (User!Active \ {L})))
                                        \cup ({L} \X (User!Active \ {L})))
      BY <1>1, OrderExtended
    <2> QED BY <1>4, <2>1, <2>2
  <1> QED BY <1>2, <1>3, <1>4, ActiveSteps

LEMMA ListsStepTyped ==
    ASSUME User!TypeOK, Scripted, [User!Next]_User!vars
    PROVE  User!TypeOK' /\ Scripted'
  <1>1. CASE User!Next
    <2>1. Ordered(User!Active, newer)'
      BY <1>1, OrderTyped
    <2>2. {unserved', stale', missed'} \subseteq BOOLEAN
      BY <1>1, HistoriesTyped DEF User!TypeOK
    <2> QED BY <1>1, <2>1, <2>2, RequestsTyped, ColumnsTyped DEF User!TypeOK, Ordered
  <1>2. CASE UNCHANGED User!vars
    BY <1>2 DEF User!vars, User!TypeOK, Scripted, User!Active
  <1> QED BY <1>1, <1>2

------------------------------------------------------------------------------
(* What is served *)

Newest(L) == L \in User!Active /\ \A M \in User!Active \ {L} : <<L, M>> \in newer

\* Between its archive and its activation a publication leaves nothing served.
PublishedIsNewest ==
    \/ unserved
    \/ \E r \in Requests : User!At(r, "activate")
    \/ published = NoList /\ User!Active = {}
    \/ Newest(published)

LEMMA ServedIsNewest ==
    ASSUME User!TypeOK, NEW L, Newest(L)
    PROVE  User!Served = L
  <1>1. \A M \in User!Active : (\A N \in User!Active \ {M} : <<M, N>> \in newer) => M = L
    BY DEF Newest, User!TypeOK
  <1>2. User!Latest(User!Active, newer) = L
    BY <1>1 DEF Newest, User!Latest
  <1> QED BY <1>2 DEF Newest, User!Served

\* The other requests stay where they are.
LEMMA OthersAt ==
    ASSUME NEW r \in Requests, Untouched(r), NEW q \in Requests \ {r}, NEW s
    PROVE  User!At(q, s)' = User!At(q, s) /\ User!List(q)' = User!List(q)
  BY DEF Untouched, User!At, User!List

LEMMA ArrivalMoves ==
    ASSUME User!TypeOK, Scripted, NEW r \in Requests, NEW L \in Lists, User!Arrive(r, L)
    PROVE  /\ Untouched(r) /\ \A s : ~User!At(r, s)
           /\ UNCHANGED <<newer, batches, published, unserved, unwritten, stale, missed>>
           /\ User!Active' = User!Active
  <1>1. Untouched(r) /\ req[r].todo = <<>>
    BY ArrivalBegins
  <1>2. status \in [Lists -> User!Statuses]
    BY DEF User!TypeOK
  <1>3. User!Active' = User!Active
    BY <1>2 DEF User!Arrive, User!UploadFile, User!UpdateAccounts,
       User!PublishAccountList, User!DeleteAccountList, User!Active
  <1>4. UNCHANGED <<newer, batches, published, unserved, unwritten, stale, missed>>
    BY DEF User!Arrive, User!UploadFile, User!UpdateAccounts,
       User!PublishAccountList, User!DeleteAccountList
  <1> QED BY <1>1, <1>3, <1>4 DEF User!At

LEMMA StatementMoves ==
    ASSUME User!TypeOK, Scripted, NEW r \in Requests, User!Serve(r)
    PROVE  Untouched(r) /\ req[r].todo # <<>> /\ (User!Continue(r) \/ User!End(r))
  <1>1. req[r].todo # <<>> /\ (User!Continue(r) \/ User!End(r))
    BY DEF User!Serve, User!DeleteRows, User!CreateRows, User!ArchiveOthers,
       User!Activate, User!Remap, User!DeleteList, User!ResetObserved, User!At
  <1> QED BY <1>1, Continued, Ended

LEMMA StepNewest ==
    ASSUME User!TypeOK, Scripted, PublishedIsNewest, [User!Next]_User!vars
    PROVE  PublishedIsNewest'
  <1>1. ASSUME NEW r \in Requests, Untouched(r), ~User!At(r, "activate"),
               User!Active' = User!Active, UNCHANGED <<newer, published, unserved>>
        PROVE  PublishedIsNewest'
    BY <1>1, OthersAt DEF PublishedIsNewest, Newest
  <1>2. ASSUME NEW r \in Requests, NEW L \in Lists, User!Arrive(r, L)
        PROVE  PublishedIsNewest'
    BY <1>1, <1>2, ArrivalMoves
  <1>3. ASSUME NEW r \in Requests, User!DeleteRows(r) \/ User!CreateRows(r)
                                   \/ User!Remap(r) \/ User!ResetObserved(r)
        PROVE  PublishedIsNewest'
    <2>1. Untouched(r)
      BY <1>3, StatementMoves DEF User!Serve
    <2>2. ~User!At(r, "activate") /\ UNCHANGED <<status, newer, published, unserved>>
      BY <1>3 DEF User!DeleteRows, User!CreateRows, User!Remap, User!ResetObserved, User!At
    <2>3. User!Active' = User!Active
      BY <2>2 DEF User!Active
    <2> QED BY <1>1, <2>1, <2>2, <2>3
  <1>4. ASSUME NEW r \in Requests, User!ArchiveOthers(r)
        PROVE  PublishedIsNewest'
    <2>1. User!At(r, "archive") /\ User!Continue(r)
      BY <1>4 DEF User!ArchiveOthers
    <2>2. req'[r].todo # <<>> /\ Head(req'[r].todo) = "activate"
      BY <2>1, ContinuedAt DEF Following
    <2> QED BY <2>2 DEF PublishedIsNewest, User!At
  <1>5. ASSUME NEW r \in Requests, User!Activate(r)
        PROVE  PublishedIsNewest'
    <2>1. CASE status[User!List(r)] = "absent"
      BY <1>5, <2>1 DEF User!Activate, PublishedIsNewest
    <2>2. CASE status[User!List(r)] # "absent"
      <3> DEFINE L == User!List(r)
      <3>1. /\ status' = [status EXCEPT ![L] = "active"] /\ published' = L
            /\ newer' = User!Activated(L)
        BY <1>5, <2>2 DEF User!Activate
      <3>2. L \in Lists /\ status \in [Lists -> User!Statuses]
        BY <1>5, AtList DEF User!Activate, User!TypeOK
      <3> HIDE DEF L
      <3>3. User!Active' = User!Active \cup {L}
        BY <3>1, <3>2 DEF User!Active
      <3>4. \A M \in User!Active' \ {published'} : <<published', M>> \in newer'
        BY <3>1, <3>3 DEF User!Activated
      <3>5. published' \in User!Active'
        BY <3>1, <3>3
      <3> QED BY <3>4, <3>5 DEF PublishedIsNewest, Newest
    <2> QED BY <2>1, <2>2
  <1>6. ASSUME NEW r \in Requests, User!DeleteList(r)
        PROVE  PublishedIsNewest'
    <2>1. Untouched(r)
      BY <1>6, StatementMoves DEF User!Serve
    <2>2. ~User!At(r, "activate")
      BY <1>6 DEF User!DeleteList, User!At
    <2>3. CASE status[User!List(r)] = "absent"
      <3>1. UNCHANGED <<status, newer, published, unserved>>
        BY <1>6, <2>3 DEF User!DeleteList
      <3> QED BY <1>1, <2>1, <2>2, <3>1 DEF User!Active
    <2>4. CASE status[User!List(r)] # "absent"
      <3>1. /\ status' = [status EXCEPT ![User!List(r)] = "absent"]
            /\ newer' = User!Among(User!Active \ {User!List(r)})
            /\ unserved' = (unserved \/ User!List(r) = published)
            /\ published' = IF User!List(r) = published THEN NoList ELSE published
        BY <1>6, <2>4 DEF User!DeleteList
      <3>2. status \in [Lists -> User!Statuses]
        BY DEF User!TypeOK
      <3>3. User!Active' = User!Active \ {User!List(r)}
        BY <3>1, <3>2 DEF User!Active
      <3>4. CASE unserved \/ User!List(r) = published
        BY <3>1, <3>4 DEF PublishedIsNewest
      <3>5. CASE published # User!List(r) /\ Newest(published)
        BY <3>1, <3>3, <3>5 DEF PublishedIsNewest, Newest, User!Among
      <3>6. CASE published # User!List(r) /\ published = NoList /\ User!Active = {}
        BY <3>1, <3>3, <3>6 DEF PublishedIsNewest
      <3>7. CASE \E q \in Requests : User!At(q, "activate")
        BY <3>7, <2>1, <2>2, OthersAt DEF PublishedIsNewest
      <3> QED BY <3>4, <3>5, <3>6, <3>7 DEF PublishedIsNewest
    <2> QED BY <2>3, <2>4
  <1>7. CASE User!Restart
    <2>1. /\ unserved' = (unserved \/ \E r \in Requests : User!At(r, "activate"))
          /\ UNCHANGED <<status, newer, published>>
      BY <1>7 DEF User!Restart
    <2> QED BY <2>1 DEF PublishedIsNewest, Newest, User!Active
  <1>8. CASE UNCHANGED User!vars
    BY <1>8 DEF User!vars, PublishedIsNewest, Newest, User!Active, User!At
  <1> QED BY <1>2, <1>3, <1>4, <1>5, <1>6, <1>7, <1>8 DEF User!Next, User!Serve

------------------------------------------------------------------------------
(* Races stay bounded *)

LEMMA NamedByRequests ==
    ASSUME NEW some \in SUBSET Requests, NEW f
    PROVE  /\ IsFiniteSet({f[r] : r \in some})
           /\ Cardinality({f[r] : r \in some}) <= User!InFlight
  <1> DEFINE g == [r \in some |-> f[r]]
             image == {f[r] : r \in some}
  <1>1. g \in Surjection(some, image)
    BY DEF Surjection
  <1>2. /\ IsFiniteSet(some) /\ Cardinality(some) <= User!InFlight
        /\ Cardinality(some) \in Nat
    BY ListsConstants, FS_Subset, FS_CardinalityType
  <1> HIDE DEF g, image
  <1>3. IsFiniteSet(image) /\ Cardinality(image) <= Cardinality(some)
    BY <1>1, <1>2, FS_Surjection
  <1>4. Cardinality(image) \in Nat
    BY <1>3, FS_CardinalityType
  <1> QED BY <1>2, <1>3, <1>4, ListsConstants DEF image

Activating == {r \in Requests : User!At(r, "activate")}
ToBeActive == User!Active \cup {req[r].list : r \in Activating}

\* A publication counts from its archive on, which leaves no other list active.
FewActive == IsFiniteSet(ToBeActive) /\ Cardinality(ToBeActive) <= User!InFlight

LEMMA StillFew ==
    ASSUME FewActive, ToBeActive' \subseteq ToBeActive
    PROVE  FewActive'
  <1>1. IsFiniteSet(ToBeActive) /\ Cardinality(ToBeActive) <= User!InFlight
    BY DEF FewActive
  <1> DEFINE old == ToBeActive
             new == ToBeActive'
  <1>2. new \in SUBSET old /\ IsFiniteSet(old)
    BY <1>1
  <1> HIDE DEF old, new
  <1>3. IsFiniteSet(new) /\ Cardinality(new) <= Cardinality(old)
    BY <1>2, FS_Subset
  <1>4. Cardinality(new) \in Nat /\ Cardinality(old) \in Nat
    BY <1>2, <1>3, FS_CardinalityType
  <1>5. Cardinality(old) <= User!InFlight
    BY <1>1 DEF old
  <1>6. Cardinality(new) <= User!InFlight
    BY <1>3, <1>4, <1>5, ListsConstants
  <1>7. User!InFlight' = User!InFlight
    BY DEF User!InFlight
  <1> QED BY <1>3, <1>6, <1>7 DEF FewActive, new

LEMMA StepFewActive ==
    ASSUME User!TypeOK, Scripted, FewActive, [User!Next]_User!vars
    PROVE  FewActive'
  <1>1. ASSUME NEW r \in Requests, Untouched(r), ~User!At(r, "activate")',
               User!Active' \subseteq ToBeActive
        PROVE  FewActive'
    <2>1. ToBeActive' \subseteq ToBeActive
      BY <1>1 DEF ToBeActive, Activating, Untouched, User!At
    <2> QED BY <2>1, StillFew
  <1>2. ASSUME NEW r \in Requests, NEW L \in Lists, User!Arrive(r, L)
        PROVE  FewActive'
    <2>1. Untouched(r) /\ User!Active' = User!Active
      BY <1>2, ArrivalMoves
    <2>2. ~User!At(r, "activate")'
      BY <1>2, ArrivalBegins DEF User!At
    <2> QED BY <1>1, <2>1, <2>2 DEF ToBeActive
  <1>3. ASSUME NEW r \in Requests, User!ArchiveOthers(r)
        PROVE  FewActive'
    <2>1. User!At(r, "archive") /\ User!Continue(r)
      BY <1>3 DEF User!ArchiveOthers
    <2>2. req'[r].todo # <<>> /\ Head(req'[r].todo) = "activate"
      BY <2>1, ContinuedAt DEF Following
    <2>3. req'[r].list = req[r].list
      BY <2>1, <2>2, Continued DEF User!At
    <2>4. User!Active' \subseteq {req[r].list}
      BY <1>3 DEF User!ArchiveOthers, User!Active, User!List
    <2> DEFINE some == Activating'
    <2>5. ToBeActive' = {req'[q].list : q \in some}
      BY <2>2, <2>3, <2>4 DEF ToBeActive, Activating, User!At
    <2>6. some \in SUBSET Requests
      BY DEF Activating
    <2> HIDE DEF some
    <2> DEFINE f == [q \in Requests |-> req'[q].list]
    <2>7. ToBeActive' = {f[q] : q \in some}
      BY <2>5, <2>6
    <2> HIDE DEF f
    <2>8. /\ IsFiniteSet({f[q] : q \in some})
          /\ Cardinality({f[q] : q \in some}) <= User!InFlight
      BY <2>6, NamedByRequests
    <2>9. User!InFlight' = User!InFlight
      BY DEF User!InFlight
    <2> QED BY <2>7, <2>8, <2>9 DEF FewActive
  <1>4. ASSUME NEW r \in Requests, User!Serve(r), ~User!ArchiveOthers(r)
        PROVE  FewActive'
    <2>1. Untouched(r)
      BY <1>4, StatementMoves
    <2>2. ~User!At(r, "activate")'
      <3>1. CASE User!End(r)
        BY <3>1, Ended DEF User!At
      <3>2. CASE User!Continue(r)
        <4>1. PICK s : User!At(r, s) /\ s # "archive"
          BY <1>4 DEF User!Serve, User!DeleteRows, User!CreateRows, User!Activate,
             User!Remap, User!DeleteList, User!ResetObserved
        <4> QED BY <3>2, <4>1, ContinuedAt DEF Following, User!At
      <3> QED BY <1>4, <3>1, <3>2, StatementMoves
    <2>3. User!Active' \subseteq ToBeActive
      <3>1. \/ User!Active' \subseteq User!Active
            \/ \E q \in Requests : User!Activate(q)
                                   /\ User!Active' = User!Active \cup {User!List(q)}
        BY <1>4, ActiveSteps DEF User!Next
      <3>2. \A q \in Requests : User!Activate(q) => q \in Activating
        BY DEF User!Activate, Activating
      <3> QED BY <3>1, <3>2 DEF ToBeActive, User!List
    <2> QED BY <1>1, <2>1, <2>2, <2>3
  <1>5. CASE User!Restart
    <2>1. Activating' = {} /\ User!Active' = User!Active
      BY <1>5, Dropped DEF User!Restart, Activating, User!At, User!Active
    <2>2. ToBeActive' \subseteq ToBeActive
      BY <2>1 DEF ToBeActive
    <2> QED BY <2>2, StillFew
  <1>6. CASE UNCHANGED User!vars
    <2>1. ToBeActive' = ToBeActive
      BY <1>6 DEF User!vars, ToBeActive, Activating, User!At, User!Active
    <2> QED BY <2>1, StillFew
  <1> QED BY <1>2, <1>3, <1>4, <1>5, <1>6 DEF User!Next, User!Serve

\* Requests about to write accounts to a list.
Creating(L) == {r \in Requests : User!At(r, "createRows") /\ req[r].list = L}

\* A request that writes has deleted before, so that what is written and about
\* to be is no more than one batch for each request.
FewRows ==
    \A L \in Lists : /\ batches[L] + Cardinality(Creating(L)) <= User!InFlight
                     /\ status[L] = "absent" => batches[L] = 0

LEMMA CreatingCounted ==
    ASSUME NEW some \in SUBSET Requests
    PROVE  /\ IsFiniteSet(some) /\ Cardinality(some) \in Nat
           /\ Cardinality(some) <= User!InFlight
  BY ListsConstants, FS_Subset, FS_CardinalityType

LEMMA FewerRequests ==
    ASSUME NEW some \in SUBSET Requests, NEW fewer \in SUBSET some
    PROVE  Cardinality(fewer) <= Cardinality(some)
  BY CreatingCounted, FS_Subset

\* Nothing is added to a list, and nobody else is about to add to it.
LEMMA RowsStillFew ==
    ASSUME User!TypeOK, FewRows, NEW L \in Lists, batches'[L] \in Nat,
           batches'[L] <= batches[L], Creating(L)' \subseteq Creating(L)
    PROVE  batches'[L] + Cardinality(Creating(L)') <= User!InFlight
  <1> DEFINE old == Creating(L)
             new == Creating(L)'
  <1>1. old \in SUBSET Requests /\ new \in SUBSET old
    BY DEF Creating
  <1>2. batches[L] \in Nat /\ batches[L] + Cardinality(old) <= User!InFlight
    BY DEF FewRows, User!TypeOK
  <1> HIDE DEF old, new
  <1>3. /\ Cardinality(new) <= Cardinality(old)
        /\ Cardinality(new) \in Nat /\ Cardinality(old) \in Nat
    BY <1>1, FewerRequests, CreatingCounted
  <1>4. batches'[L] + Cardinality(new) <= User!InFlight
    BY <1>2, <1>3, ListsConstants
  <1> QED BY <1>4 DEF new

\* Whose next statement creates accounts.
LEMMA CreatingSteps ==
    ASSUME User!TypeOK, Scripted, User!Next
    PROVE  \/ \E r \in Requests, L \in Lists :
                  /\ User!UploadFile(r, L) /\ Creating(L)' = {r}
                  /\ \A M \in Lists \ {L} : Creating(M)' = Creating(M)
           \/ \E r \in Requests, L \in Lists :
                  /\ User!DeleteRows(r) /\ req[r].list = L /\ r \in Creating(L)'
                  /\ \A M \in Lists \ {L} : Creating(M)' = Creating(M)
           \/ \E r \in Requests, L \in Lists :
                  /\ User!CreateRows(r) /\ req[r].list = L /\ r \in Creating(L)
                  /\ \A M \in Lists : Creating(M)' = Creating(M) \ {r}
           \/ User!Restart /\ \A M \in Lists : Creating(M)' = {}
           \/ /\ \/ \E r \in Requests, L \in Lists :
                       User!Arrive(r, L) /\ ~User!UploadFile(r, L)
                 \/ \E r \in Requests :
                       /\ User!Serve(r) /\ ~User!DeleteRows(r) /\ ~User!CreateRows(r)
              /\ \A M \in Lists : Creating(M)' = Creating(M)
  <1>1. ASSUME NEW r \in Requests, Untouched(r), NEW M,
               ~(User!At(r, "createRows") /\ req[r].list = M),
               ~(User!At(r, "createRows")' /\ req'[r].list = M)
        PROVE  Creating(M)' = Creating(M)
    BY <1>1 DEF Untouched, Creating, User!At
  <1>2. ASSUME NEW r \in Requests, NEW L \in Lists, User!UploadFile(r, L)
        PROVE  Creating(L)' = {r} /\ \A M \in Lists \ {L} : Creating(M)' = Creating(M)
    <2>1. User!Begin(r, L, <<"createRows">>, FALSE)
      BY <1>2 DEF User!UploadFile
    <2>2. /\ Untouched(r) /\ req[r].todo = <<>>
          /\ req'[r].todo = <<"createRows">> /\ req'[r].list = L
      BY <2>1, Begun, ScriptsLeft
    <2>3. User!At(r, "createRows")' /\ ~User!At(r, "createRows")
      BY <2>2 DEF User!At
    <2>4. \A q \in Requests : req[q].list # L
      BY <1>2 DEF User!UploadFile, User!List
    <2>5. Creating(L)' = {r}
      BY <2>2, <2>3, <2>4 DEF Creating, Untouched, User!At
    <2> QED BY <1>1, <2>2, <2>3, <2>5
  <1>3. ASSUME NEW r \in Requests, NEW L \in Lists, User!Arrive(r, L), ~User!UploadFile(r, L)
        PROVE  \A M \in Lists : Creating(M)' = Creating(M)
    <2>1. /\ Untouched(r) /\ req[r].todo = <<>>
          /\ Head(req'[r].todo) \in {"deleteRows", "archive", "deleteList"}
      BY <1>3, ArrivalBegins
    <2> QED BY <1>1, <2>1 DEF User!At
  <1>4. ASSUME NEW r \in Requests, NEW L, req[r].list = L, User!DeleteRows(r)
        PROVE  L \in Lists /\ r \in Creating(L)'
               /\ \A M \in Lists \ {L} : Creating(M)' = Creating(M)
    <2>1. User!At(r, "deleteRows") /\ User!Continue(r)
      BY <1>4 DEF User!DeleteRows
    <2>2. req'[r].todo # <<>> /\ Head(req'[r].todo) = "createRows"
      BY <2>1, ContinuedAt DEF Following
    <2>3. req'[r].list = req[r].list /\ Untouched(r)
      BY <2>1, <2>2, Continued DEF User!At
    <2>4. ~User!At(r, "createRows")
      BY <2>1 DEF User!At
    <2>5. r \in Creating(L)'
      BY <1>4, <2>2, <2>3 DEF Creating, User!At
    <2>6. L \in Lists
      BY <1>4, <2>1, AtList DEF User!List
    <2> QED BY <1>1, <1>4, <2>2, <2>3, <2>4, <2>5, <2>6
  <1>5. ASSUME NEW r \in Requests, NEW L, req[r].list = L, User!CreateRows(r)
        PROVE  /\ L \in Lists /\ r \in Creating(L)
               /\ \A M \in Lists : Creating(M)' = Creating(M) \ {r}
    <2>1. User!At(r, "createRows") /\ (User!Continue(r) \/ User!End(r))
      BY <1>5 DEF User!CreateRows
    <2>2. Untouched(r)
      BY <1>5, StatementMoves DEF User!Serve
    <2>3. ~User!At(r, "createRows")'
      <3>1. CASE User!Continue(r)
        BY <2>1, <3>1, ContinuedAt DEF Following, User!At
      <3>2. CASE User!End(r)
        BY <3>2, Ended DEF User!At
      <3> QED BY <2>1, <3>1, <3>2
    <2>4. L \in Lists /\ r \in Creating(L)
      BY <1>5, <2>1, AtList DEF User!List, Creating
    <2> QED BY <2>2, <2>3, <2>4 DEF Creating, Untouched, User!At
  <1>6. ASSUME NEW r \in Requests, User!Serve(r), ~User!DeleteRows(r), ~User!CreateRows(r)
        PROVE  \A M \in Lists : Creating(M)' = Creating(M)
    <2>1. PICK s : User!At(r, s) /\ s # "deleteRows" /\ s # "createRows"
      BY <1>6 DEF User!Serve, User!ArchiveOthers, User!Activate, User!Remap,
         User!DeleteList, User!ResetObserved
    <2>2. Untouched(r) /\ (User!Continue(r) \/ User!End(r))
      BY <1>6, StatementMoves
    <2>3. ~User!At(r, "createRows")'
      <3>1. CASE User!Continue(r)
        BY <2>1, <3>1, ContinuedAt DEF Following, User!At
      <3>2. CASE User!End(r)
        BY <3>2, Ended DEF User!At
      <3> QED BY <2>2, <3>1, <3>2
    <2>4. ~User!At(r, "createRows")
      BY <2>1 DEF User!At
    <2> QED BY <1>1, <2>2, <2>3, <2>4
  <1>7. ASSUME User!Restart
        PROVE  \A M \in Lists : Creating(M)' = {}
    BY <1>7, Dropped DEF User!Restart, Creating, User!At
  <1> QED BY <1>2, <1>3, <1>4, <1>5, <1>6, <1>7 DEF User!Next

\* What the steps that write no accounts do with those that are there.
LEMMA QuietRows ==
    ASSUME User!TypeOK, Scripted, FewRows,
           \/ \E r \in Requests, L \in Lists : User!Arrive(r, L) /\ ~User!UploadFile(r, L)
           \/ \E r \in Requests : User!Serve(r) /\ ~User!DeleteRows(r) /\ ~User!CreateRows(r)
    PROVE  \A L \in Lists : /\ batches'[L] \in {0, batches[L]}
                            /\ status'[L] = "absent" => batches'[L] = 0
                            /\ status'[L] # "absent" =>
                                   status[L] # "absent" /\ batches'[L] = batches[L]
                            /\ L \notin unwritten' => L \notin unwritten \/ status'[L] = "absent"
  <1>1. /\ status \in [Lists -> User!Statuses]
        /\ batches \in [Lists -> 0..(User!InFlight + 1)]
        /\ \A L \in Lists : status[L] = "absent" => batches[L] = 0
    BY DEF User!TypeOK, FewRows
  <1> SUFFICES ASSUME NEW L \in Lists
               PROVE  /\ batches'[L] \in {0, batches[L]}
                      /\ status'[L] = "absent" => batches'[L] = 0
                      /\ status'[L] # "absent" =>
                             status[L] # "absent" /\ batches'[L] = batches[L]
                      /\ L \notin unwritten' => L \notin unwritten \/ status'[L] = "absent"
    OBVIOUS
  <1>2. ASSUME NEW r \in Requests, NEW M \in Lists, User!Arrive(r, M), ~User!UploadFile(r, M)
        PROVE  UNCHANGED <<status, batches, unwritten>>
    BY <1>2 DEF User!Arrive, User!UpdateAccounts, User!PublishAccountList,
       User!DeleteAccountList
  <1>3. ASSUME NEW r \in Requests, User!Remap(r) \/ User!ResetObserved(r)
        PROVE  UNCHANGED <<status, batches, unwritten>>
    BY <1>3 DEF User!Remap, User!ResetObserved
  <1>4. ASSUME NEW r \in Requests, User!ArchiveOthers(r)
        PROVE  /\ UNCHANGED <<batches, unwritten>>
               /\ status'[L] = "absent" <=> status[L] = "absent"
    BY <1>1, <1>4 DEF User!ArchiveOthers
  <1>5. ASSUME NEW r \in Requests, User!Activate(r)
        PROVE  /\ UNCHANGED <<batches, unwritten>>
               /\ status'[L] = "absent" <=> status[L] = "absent"
    BY <1>1, <1>5 DEF User!Activate
  <1>6. ASSUME NEW r \in Requests, User!DeleteList(r)
        PROVE  /\ L = User!List(r) => batches'[L] = 0 /\ status'[L] = "absent"
               /\ L # User!List(r) => batches'[L] = batches[L] /\ status'[L] = status[L]
               /\ unwritten' = unwritten \ {User!List(r)}
    BY <1>1, <1>6 DEF User!DeleteList
  <1>7. ASSUME NEW r \in Requests, User!Serve(r), ~User!DeleteRows(r), ~User!CreateRows(r)
        PROVE  \/ User!Remap(r) \/ User!ResetObserved(r) \/ User!ArchiveOthers(r)
               \/ User!Activate(r) \/ User!DeleteList(r)
    BY <1>7 DEF User!Serve
  <1> QED BY <1>1, <1>2, <1>3, <1>4, <1>5, <1>6, <1>7

LEMMA StepFewRows ==
    ASSUME User!TypeOK, Scripted, FewRows, [User!Next]_User!vars
    PROVE  FewRows'
  <1>1. /\ status \in [Lists -> User!Statuses]
        /\ batches \in [Lists -> 0..(User!InFlight + 1)]
        /\ \A L \in Lists : /\ batches[L] + Cardinality(Creating(L)) <= User!InFlight
                            /\ status[L] = "absent" => batches[L] = 0
        /\ User!InFlight \in Nat
    BY ListsConstants DEF User!TypeOK, FewRows
  <1>2. User!InFlight' = User!InFlight
    BY DEF User!InFlight
  <1>3. ASSUME NEW r \in Requests, NEW L \in Lists, User!UploadFile(r, L), Creating(L)' = {r},
               \A M \in Lists \ {L} : Creating(M)' = Creating(M)
        PROVE  FewRows'
    <2>1. /\ batches' = batches /\ batches[L] = 0
          /\ \A M \in Lists : status'[M] = "absent" => status[M] = "absent"
      BY <1>1, <1>3 DEF User!UploadFile
    <2>2. Cardinality({r}) = 1 /\ Cardinality({r}) <= User!InFlight
      BY CreatingCounted, FS_Singleton
    <2>3. \A M \in Lists : batches'[M] + Cardinality(Creating(M)') <= User!InFlight
      BY <1>1, <1>3, <2>1, <2>2
    <2> QED BY <1>1, <1>2, <2>1, <2>3 DEF FewRows
  <1>4. ASSUME NEW r \in Requests, NEW L \in Lists, User!DeleteRows(r), req[r].list = L,
               \A M \in Lists \ {L} : Creating(M)' = Creating(M)
        PROVE  FewRows'
    <2>1. status' = status /\ batches' = [batches EXCEPT ![L] = 0]
      BY <1>4 DEF User!DeleteRows, User!RowsDeleted, User!List
    <2>2. Creating(L)' \subseteq Requests
      BY DEF Creating
    <2>3. Cardinality(Creating(L)') <= User!InFlight /\ Cardinality(Creating(L)') \in Nat
      BY <2>2, CreatingCounted
    <2>4. \A M \in Lists : batches'[M] + Cardinality(Creating(M)') <= User!InFlight
      <3> TAKE M \in Lists
      <3>1. CASE M = L
        BY <1>1, <2>1, <2>3, <3>1
      <3>2. CASE M # L
        BY <1>1, <1>4, <2>1, <3>2
      <3> QED BY <3>1, <3>2
    <2> QED BY <1>1, <1>2, <2>1, <2>4 DEF FewRows
  <1>5. ASSUME NEW r \in Requests, NEW L \in Lists, User!CreateRows(r), req[r].list = L,
               r \in Creating(L),
               \A M \in Lists : Creating(M)' = Creating(M) \ {r}
        PROVE  FewRows'
    <2>1. status' = status
      BY <1>5 DEF User!CreateRows
    <2>2. /\ \A M \in Lists \ {L} : batches'[M] = batches[M]
          /\ batches'[L] \in {batches[L], batches[L] + 1}
          /\ status[L] = "absent" => batches'[L] = batches[L]
      BY <1>1, <1>5, <2>1 DEF User!CreateRows, User!List
    <2>3. \A M \in Lists : /\ IsFiniteSet(Creating(M)) /\ Cardinality(Creating(M)) \in Nat
                           /\ Cardinality(Creating(M)') \in Nat
                           /\ Cardinality(Creating(M)') <= Cardinality(Creating(M))
      <3> TAKE M \in Lists
      <3>1. Creating(M) \in SUBSET Requests /\ Creating(M)' \in SUBSET Creating(M)
        BY <1>5 DEF Creating
      <3> QED BY <3>1, CreatingCounted, FewerRequests
    <2>4. Cardinality(Creating(L)') = Cardinality(Creating(L)) - 1
      <3>1. Cardinality(Creating(L) \ {r}) = Cardinality(Creating(L)) - 1
        BY <1>5, <2>3, FS_RemoveElement
      <3> QED BY <1>5, <3>1
    <2>5. \A M \in Lists : batches'[M] + Cardinality(Creating(M)') <= User!InFlight
      <3> TAKE M \in Lists
      <3>1. CASE M = L
        BY <1>1, <2>1, <2>2, <2>3, <2>4, <3>1
      <3>2. CASE M # L
        BY <1>1, <2>2, <2>3, <3>2
      <3> QED BY <3>1, <3>2
    <2> QED BY <1>1, <1>2, <2>1, <2>2, <2>5 DEF FewRows
  <1>6. ASSUME \/ \E r \in Requests, L \in Lists : User!Arrive(r, L) /\ ~User!UploadFile(r, L)
               \/ \E r \in Requests :
                      User!Serve(r) /\ ~User!DeleteRows(r) /\ ~User!CreateRows(r),
               \A M \in Lists : Creating(M)' = Creating(M)
        PROVE  FewRows'
    <2>1. \A L \in Lists : /\ batches'[L] \in {0, batches[L]}
                           /\ status'[L] = "absent" => batches'[L] = 0
      BY <1>6, QuietRows
    <2>2. \A L \in Lists : batches'[L] + Cardinality(Creating(L)') <= User!InFlight
      BY <1>1, <1>6, <2>1, RowsStillFew
    <2> QED BY <1>2, <2>1, <2>2 DEF FewRows
  <1>7. ASSUME User!Restart, \A M \in Lists : Creating(M)' = {}
        PROVE  FewRows'
    <2>1. UNCHANGED <<status, batches>>
      BY <1>7 DEF User!Restart
    <2>2. \A L \in Lists : batches'[L] + Cardinality(Creating(L)') <= User!InFlight
      BY <1>1, <1>7, <2>1, RowsStillFew
    <2> QED BY <1>1, <1>2, <2>1, <2>2 DEF FewRows
  <1>8. CASE UNCHANGED User!vars
    <2>1. UNCHANGED <<status, batches>> /\ \A L : Creating(L)' = Creating(L)
      BY <1>8 DEF User!vars, Creating, User!At
    <2> QED BY <1>1, <1>2, <2>1 DEF FewRows
  <1>9. CASE User!Next
    BY <1>9, <1>3, <1>4, <1>5, <1>6, <1>7, CreatingSteps
  <1> QED BY <1>8, <1>9

------------------------------------------------------------------------------
(* Lists that lose their accounts *)

\* A list without accounts is about to get some.
Refilled ==
    \A L \in Lists \ unwritten : status[L] # "absent" /\ batches[L] = 0 => Creating(L) # {}

LEMMA StepRefilled ==
    ASSUME User!TypeOK, Scripted, FewRows, Refilled, [User!Next]_User!vars
    PROVE  Refilled'
  <1>1. /\ status \in [Lists -> User!Statuses]
        /\ batches \in [Lists -> 0..(User!InFlight + 1)]
        /\ User!InFlight \in Nat
    BY ListsConstants DEF User!TypeOK
  <1>2. ASSUME NEW r \in Requests, NEW L \in Lists, User!UploadFile(r, L), Creating(L)' = {r},
               \A M \in Lists \ {L} : Creating(M)' = Creating(M)
        PROVE  Refilled'
    <2>1. /\ UNCHANGED <<batches, unwritten>>
          /\ \A M \in Lists \ {L} : status'[M] = status[M]
      BY <1>1, <1>2 DEF User!UploadFile
    <2> QED BY <1>2, <2>1 DEF Refilled
  <1>3. ASSUME NEW r \in Requests, NEW L \in Lists, User!DeleteRows(r), req[r].list = L,
               r \in Creating(L)', \A M \in Lists \ {L} : Creating(M)' = Creating(M)
        PROVE  Refilled'
    <2>1. /\ UNCHANGED <<status, unwritten>>
          /\ \A M \in Lists \ {L} : batches'[M] = batches[M]
      BY <1>1, <1>3 DEF User!DeleteRows, User!List
    <2> QED BY <1>3, <2>1 DEF Refilled
  <1>4. ASSUME NEW r \in Requests, NEW L \in Lists, User!CreateRows(r), req[r].list = L,
               \A M \in Lists : Creating(M)' = Creating(M) \ {r}
        PROVE  Refilled'
    <2>1. /\ status' = status /\ unwritten \ {L} \subseteq unwritten'
          /\ \A M \in Lists \ {L} : batches'[M] = batches[M]
          /\ status[L] # "absent" /\ L \notin unwritten' => batches'[L] # 0
      BY <1>1, <1>4 DEF User!CreateRows, User!List, User!Unwritten
    <2>2. \A M \in Lists \ {L} : Creating(M)' = Creating(M)
      BY <1>4 DEF Creating
    <2> QED BY <2>1, <2>2 DEF Refilled
  <1>5. ASSUME \/ \E r \in Requests, L \in Lists : User!Arrive(r, L) /\ ~User!UploadFile(r, L)
               \/ \E r \in Requests :
                      User!Serve(r) /\ ~User!DeleteRows(r) /\ ~User!CreateRows(r),
               \A M \in Lists : Creating(M)' = Creating(M)
        PROVE  Refilled'
    <2>1. \A L \in Lists : /\ status'[L] # "absent" =>
                                  status[L] # "absent" /\ batches'[L] = batches[L]
                           /\ L \notin unwritten' => L \notin unwritten \/ status'[L] = "absent"
      BY <1>5, QuietRows
    <2> QED BY <1>5, <2>1 DEF Refilled
  <1>6. ASSUME User!Restart
        PROVE  Refilled'
    <2>1. UNCHANGED <<status, batches>>
      BY <1>6 DEF User!Restart
    <2>2. \A L \in Lists \ unwritten' : L \notin unwritten /\ Creating(L) = {}
      BY <1>6 DEF User!Restart, Creating, User!List
    <2> QED BY <2>1, <2>2 DEF Refilled
  <1>7. CASE UNCHANGED User!vars
    <2>1. UNCHANGED <<status, batches, unwritten>> /\ \A L : Creating(L)' = Creating(L)
      BY <1>7 DEF User!vars, Creating, User!At
    <2> QED BY <2>1 DEF Refilled
  <1>8. CASE User!Next
    BY <1>8, <1>2, <1>3, <1>4, <1>5, <1>6, CreatingSteps
  <1> QED BY <1>7, <1>8

------------------------------------------------------------------------------
(* Counts that lag behind *)

\* Whoever is in flight and counts at the end, having changed something.
WillCount(r) == req[r].todo # <<>> /\ req[r].counts /\ ~User!At(r, "deleteList")

Recounted == stale /\ ~missed => \E r \in Requests : WillCount(r)

LEMMA StepRecounted ==
    ASSUME User!TypeOK, Scripted, Recounted, [User!Next]_User!vars
    PROVE  Recounted'
  <1>1. ASSUME NEW r \in Requests, Untouched(r), UNCHANGED <<stale, missed>>,
               ~WillCount(r)
        PROVE  Recounted'
    BY <1>1 DEF Recounted, WillCount, Untouched, User!At
  <1>2. ASSUME NEW r \in Requests, NEW L \in Lists, User!Arrive(r, L)
        PROVE  Recounted'
    <2>1. /\ Untouched(r) /\ UNCHANGED <<stale, missed>>
          /\ req[r].todo = <<>>
      BY <1>2, ArrivalMoves, ArrivalBegins
    <2> QED BY <1>1, <2>1 DEF WillCount
  <1>3. ASSUME NEW r \in Requests, NEW s, User!At(r, s), User!Continue(r),
               s \notin {"remap", "resetObserved"}, req[r].counts
        PROVE  WillCount(r)'
    <2>1. req'[r].todo # <<>> /\ <<s, Head(req'[r].todo)>> \in Following
      BY <1>3, ContinuedAt
    <2>2. req'[r].counts
      BY <1>3, <2>1, Continued DEF User!At
    <2> QED BY <2>1, <2>2 DEF WillCount, User!At, Following
  <1>4. ASSUME NEW r \in Requests, NEW s, User!At(r, s), User!Continue(r),
               s \notin {"remap", "resetObserved"}, User!Changed(r)
        PROVE  Recounted'
    <2>1. CASE req[r].counts
      BY <1>3, <1>4, <2>1 DEF Recounted
    <2>2. CASE ~req[r].counts
      BY <1>4, <2>2 DEF Recounted, User!Changed
    <2> QED BY <2>1, <2>2
  <1>5. ASSUME NEW r \in Requests, NEW s, User!At(r, s), User!Continue(r),
               s \notin {"remap", "resetObserved"}, User!Unchanged
        PROVE  Recounted'
    <2>1. CASE req[r].counts
      BY <1>3, <1>5, <2>1 DEF Recounted
    <2>2. CASE ~req[r].counts
      <3>1. Untouched(r)
        BY <1>5, Continued DEF User!At
      <3> QED BY <1>1, <1>5, <2>2, <3>1 DEF User!Unchanged, WillCount
    <2> QED BY <2>1, <2>2
  <1>6. ASSUME User!BrokenOff \/ User!Counted
        PROVE  Recounted'
    BY <1>6 DEF User!BrokenOff, User!Counted, Recounted
  <1>7. ASSUME NEW r \in Requests, User!Serve(r)
        PROVE  Recounted'
    <2>1. CASE User!DeleteRows(r)
      BY <1>4, <1>5, <2>1 DEF User!DeleteRows
    <2>2. CASE User!CreateRows(r)
      BY <1>4, <1>5, <1>6, <2>2 DEF User!CreateRows
    <2>3. CASE User!ArchiveOthers(r)
      BY <1>4, <1>5, <2>3 DEF User!ArchiveOthers
    <2>4. CASE User!Activate(r)
      BY <1>4, <1>5, <1>6, <2>4 DEF User!Activate
    <2>5. CASE User!DeleteList(r)
      <3>1. CASE status[User!List(r)] = "absent"
        <4>1. User!At(r, "deleteList") /\ UNCHANGED <<stale, missed>>
          BY <2>5, <3>1 DEF User!DeleteList
        <4>2. Untouched(r)
          BY <1>7, StatementMoves
        <4> QED BY <1>1, <4>1, <4>2 DEF WillCount
      <3>2. CASE status[User!List(r)] # "absent"
        BY <1>4, <1>5, <2>5, <3>2 DEF User!DeleteList
      <3> QED BY <3>1, <3>2
    <2>6. CASE User!Remap(r) \/ User!ResetObserved(r)
      BY <1>6, <2>6 DEF User!Remap, User!ResetObserved
    <2> QED BY <1>7, <2>1, <2>2, <2>3, <2>4, <2>5, <2>6 DEF User!Serve
  <1>8. CASE User!Restart
    BY <1>6, <1>8 DEF User!Restart
  <1>9. CASE UNCHANGED User!vars
    BY <1>9 DEF User!vars, Recounted, WillCount, User!At
  <1> QED BY <1>2, <1>7, <1>8, <1>9 DEF User!Next

------------------------------------------------------------------------------

ListsInv ==
    /\ User!TypeOK /\ Scripted
    /\ PublishedIsNewest /\ FewActive /\ FewRows /\ Refilled /\ Recounted

LEMMA ListsInitInv == User!Init => ListsInv
  <1> SUFFICES ASSUME User!Init PROVE ListsInv
    OBVIOUS
  <1>1. User!TypeOK /\ Scripted
    BY ListsInitTyped
  <1>2. User!Active = {}
    BY DEF User!Init, User!Active
  <1>3. \A r \in Requests : req[r].todo = <<>>
    BY DEF User!Init, User!Idle
  <1>4. ToBeActive = {} /\ \A L : Creating(L) = {}
    BY <1>2, <1>3 DEF ToBeActive, Activating, Creating, User!At
  <1>5. FewActive
    BY <1>4, FS_EmptySet, ListsConstants DEF FewActive
  <1>6. FewRows
    <2>1. Cardinality({}) = 0
      BY FS_EmptySet
    <2> QED BY <1>4, <2>1, ListsConstants DEF FewRows, User!Init
  <1> QED BY <1>1, <1>2, <1>5, <1>6
       DEF ListsInv, PublishedIsNewest, Refilled, Recounted, User!Init

LEMMA ListsStepInv == ListsInv /\ [User!Next]_User!vars => ListsInv'
  BY ListsStepTyped, StepNewest, StepFewActive, StepFewRows, StepRefilled, StepRecounted
     DEF ListsInv

\* What the invariant says of a user whose requests are all done.
LEMMA ListsAtRest ==
    ASSUME ListsInv
    PROVE  /\ User!LastPublishedIsServed /\ User!RacesStayBounded
           /\ User!UpdatesNeverEmptyAList /\ User!ChangesAreCounted
  <1>1. User!AtRest => \A r \in Requests : req[r].todo = <<>>
    BY DEF User!AtRest, User!Idle
  <1>2. User!LastPublishedIsServed
    <2> SUFFICES ASSUME User!AtRest, ~unserved PROVE User!Served = published
      BY DEF User!LastPublishedIsServed
    <2>1. \/ published = NoList /\ User!Active = {}
          \/ Newest(published)
      BY <1>1 DEF ListsInv, PublishedIsNewest, User!At
    <2> QED BY <2>1, ServedIsNewest DEF ListsInv, User!Served
  <1>3. Cardinality(User!Active) <= User!InFlight
    <2>1. User!Active \in SUBSET ToBeActive /\ IsFiniteSet(ToBeActive)
          /\ Cardinality(ToBeActive) <= User!InFlight
      BY DEF ToBeActive, ListsInv, FewActive
    <2>2. /\ IsFiniteSet(User!Active) /\ Cardinality(User!Active) <= Cardinality(ToBeActive)
      BY <2>1, FS_Subset
    <2>3. Cardinality(User!Active) \in Nat /\ Cardinality(ToBeActive) \in Nat
      BY <2>1, <2>2, FS_CardinalityType
    <2> QED BY <2>1, <2>2, <2>3, ListsConstants
  <1>4. \A L \in Lists : batches[L] <= User!InFlight
    <2> TAKE L \in Lists
    <2>1. Creating(L) \in SUBSET Requests
      BY DEF Creating
    <2>2. Cardinality(Creating(L)) \in Nat
      BY <2>1, CreatingCounted
    <2>3. batches[L] \in Nat /\ batches[L] + Cardinality(Creating(L)) <= User!InFlight
      BY DEF ListsInv, FewRows, User!TypeOK
    <2> QED BY <2>2, <2>3, ListsConstants
  <1>5. User!RacesStayBounded
    BY <1>3, <1>4, SameCardinality DEF User!RacesStayBounded
  <1>6. User!UpdatesNeverEmptyAList
    <2> SUFFICES ASSUME User!AtRest, NEW L \in Lists \ unwritten, status[L] # "absent"
                 PROVE  batches[L] > 0
      BY DEF User!UpdatesNeverEmptyAList
    <2>1. Creating(L) = {}
      BY <1>1 DEF Creating, User!At
    <2>2. batches[L] # 0 /\ batches[L] \in Nat
      BY <2>1 DEF ListsInv, Refilled, User!TypeOK
    <2> QED BY <2>2
  <1>7. User!ChangesAreCounted
    BY <1>1 DEF User!ChangesAreCounted, ListsInv, Recounted, WillCount, User!TypeOK
  <1> QED BY <1>2, <1>5, <1>6, <1>7

------------------------------------------------------------------------------
(* Each part runs by its own specification, whichever of the three moves. *)

LEMMA UserRuns == SharedSpec => User!Spec
  <1>1. SharedInit => User!Init
    BY DEF SharedInit
  <1>2. [KeepLists \/ DecidePairs \/ FindMatches]_allVars => [User!Next]_User!vars
    BY DEF KeepLists, DecidePairs, FindMatches, allVars, listVars, User!vars
  <1> QED BY <1>1, <1>2, PTL DEF SharedSpec, User!Spec

LEMMA ListsInvariance == SharedSpec => []ListsInv
  BY UserRuns, ListsInitInv, ListsStepInv, PTL DEF User!Spec

\* After any publications of a user's lists, however they interleave, the one
\* activated last is served, unless it was deleted or one broke off.
THEOREM PublishedTheorem == SharedSpec => []LastPublishedIsServed
<1>1. ListsInv => LastPublishedIsServed
  BY ListsAtRest DEF LastPublishedIsServed
<1>2. QED
  BY <1>1, ListsInvariance, PTL

\* No more lists are active, and no more batches of accounts in one list, than
\* requests were served at the same time.
THEOREM RacesTheorem == SharedSpec => []RacesStayBounded
<1>1. ListsInv => RacesStayBounded
  BY ListsAtRest DEF RacesStayBounded
<1>2. QED
  BY <1>1, ListsInvariance, PTL

\* A list is left without accounts only if its last createMany was given none,
\* failed or did not run; updates that race never leave it so.
THEOREM RefilledTheorem == SharedSpec => []UpdatesNeverEmptyAList
<1>1. ListsInv => UpdatesNeverEmptyAList
  BY ListsAtRest DEF UpdatesNeverEmptyAList
<1>2. QED
  BY <1>1, ListsInvariance, PTL

\* The matches are counted again, or their count reset, after the last change of
\* what is served, but for the exceptions in missed.
THEOREM CountedTheorem == SharedSpec => []ChangesAreCounted
<1>1. ListsInv => ChangesAreCounted
  BY ListsAtRest DEF ChangesAreCounted
<1>2. QED
  BY <1>1, ListsInvariance, PTL

------------------------------------------------------------------------------
(* The decisions of a connection: definitions of MatchDecisions are those of  *)
(* Link.                                                                      *)

LEMMA DecisionsConstants ==
    /\ MaxAccounts \in [Link!Sides -> Nat] /\ MaxDecisions \in Nat /\ MaxReplaced \in Nat
  BY PartsAssumption DEF Link!DecisionsAssumption, Link!Sides

\* An id of a list that is served still finds the account it was given to, and
\* no id is of a list to come.
Live(s, id, name) ==
    /\ id[1] <= version[s]
    /\ id[1] = version[s] => id[2] \in DOMAIN accounts[s] /\ accounts[s][id[2]] = name

Backed(row) ==
    Live("sender", row.your, row.yourName) /\ Live("receiver", row.their, row.theirName)

DecisionsInv ==
    /\ Link!TypeOK
    /\ accounts = [s \in Link!Sides |-> accounts[s]]
    /\ \A k \in DOMAIN rows : Backed(rows[k])
    /\ deciding # <<>> =>
           \E row \in Link!Row : /\ deciding = <<row>> /\ Backed(row)
                                 /\ Len(Link!Upserted(row)) <= MaxDecisions

OneRowPerPair == \A k, l \in DOMAIN rows : Link!SameAccounts(rows[k], rows[l]) => k = l

\* An upsert keeps one row for each pair, and every row of it is the new one or
\* one that was there.
LEMMA UpsertedRows ==
    ASSUME rows \in Seq(Link!Row), OneRowPerPair, NEW row \in Link!Row
    PROVE  /\ Link!Upserted(row) \in Seq(Link!Row)
           /\ \A k, l \in DOMAIN Link!Upserted(row) :
                  Link!SameAccounts(Link!Upserted(row)[k], Link!Upserted(row)[l]) => k = l
           /\ \A k \in DOMAIN Link!Upserted(row) :
                  \/ Link!Upserted(row)[k] = row
                  \/ \E l \in DOMAIN rows : Link!Upserted(row)[k] = rows[l]
  <1>1. CASE \E k \in DOMAIN rows : Link!SameAccounts(rows[k], row)
    <2> DEFINE new == [k \in DOMAIN rows |->
                          IF Link!SameAccounts(rows[k], row) THEN row ELSE rows[k]]
    <2>1. Link!Upserted(row) = new
      BY <1>1 DEF Link!Upserted
    <2>2. new \in Seq(Link!Row)
      <3>1. \A k \in DOMAIN rows : rows[k] \in Link!Row
        OBVIOUS
      <3>2. DOMAIN rows = 1..Len(rows) /\ Len(rows) \in Nat
        OBVIOUS
      <3>3. new \in [1..Len(rows) -> Link!Row]
        BY <3>1, <3>2
      <3> QED BY <3>2, <3>3
    <2>3. \A k \in DOMAIN rows : Link!SameAccounts(new[k], rows[k])
      BY DEF Link!SameAccounts
    <2>4. \A k, l \in DOMAIN rows : Link!SameAccounts(new[k], new[l]) => k = l
      BY <2>3 DEF Link!SameAccounts, OneRowPerPair
    <2> QED BY <2>1, <2>2, <2>4
  <1>2. CASE ~ \E k \in DOMAIN rows : Link!SameAccounts(rows[k], row)
    <2> DEFINE new == Append(rows, row)
    <2>1. Link!Upserted(row) = new
      BY <1>2 DEF Link!Upserted
    <2>2. new \in Seq(Link!Row)
      OBVIOUS
    <2>3. \A k \in DOMAIN new : IF k = Len(rows) + 1 THEN new[k] = row
                                ELSE k \in DOMAIN rows /\ new[k] = rows[k]
      OBVIOUS
    <2> HIDE DEF new
    <2>4. \A k, l \in DOMAIN new : Link!SameAccounts(new[k], new[l]) => k = l
      BY <1>2, <2>3 DEF Link!SameAccounts, OneRowPerPair
    <2> QED BY <2>1, <2>2, <2>3, <2>4
  <1> QED BY <1>1, <1>2

LEMMA ListsTyped ==
    ASSUME NEW s \in Link!Sides, NEW names \in Link!ListsOf(s)
    PROVE  names \in Seq(Names[s]) /\ Len(names) <= MaxAccounts[s]
  <1>1. PICK n \in 0..MaxAccounts[s] : names \in [1..n -> Names[s]]
    BY DEF Link!ListsOf, Link!BoundedSeq, Link!SeqOf
  <1>2. MaxAccounts[s] \in Nat
    BY DecisionsConstants
  <1>3. n \in Nat /\ n <= MaxAccounts[s]
    BY <1>1, <1>2
  <1> QED BY <1>1, <1>3

LEMMA DecisionsInitInv == Link!Init => DecisionsInv
  <1> SUFFICES ASSUME Link!Init PROVE DecisionsInv
    OBVIOUS
  <1>1. PICK l \in Link!ListsOf("sender"), m \in Link!ListsOf("receiver") :
            accounts = [s \in Link!Sides |-> IF s = "sender" THEN l ELSE m]
    BY DEF Link!Init
  <1>2. \A s \in Link!Sides : accounts[s] \in Link!ListsOf(s)
    BY <1>1 DEF Link!Sides
  <1>3. \A s \in Link!Sides : accounts[s] \in Seq(Names[s]) /\ Len(accounts[s]) <= MaxAccounts[s]
    BY <1>2, ListsTyped
  <1>4. DOMAIN accounts = Link!Sides /\ accounts = [s \in Link!Sides |-> accounts[s]]
    BY <1>1
  <1>5. version \in [Link!Sides -> 0..MaxReplaced] /\ rows = <<>> /\ deciding = <<>>
    BY DecisionsConstants DEF Link!Init
  <1>6. rows \in Seq(Link!Row) /\ Len(rows) = 0 /\ DOMAIN rows = {}
    BY <1>5
  <1> QED BY <1>3, <1>4, <1>5, <1>6, DecisionsConstants DEF DecisionsInv, Link!TypeOK

\* The row of a decision on accounts that both lists hold is backed by them.
LEMMA CanonicalBacked ==
    ASSUME DecisionsInv, NEW v \in Link!Sides, NEW d \in {"accepted", "rejected"},
           NEW i \in DOMAIN accounts[v], NEW j \in DOMAIN accounts[Link!Other(v)]
    PROVE  /\ Link!CanonicalRow(v, i, j, d) \in Link!Row
           /\ Backed(Link!CanonicalRow(v, i, j, d))
  <1> DEFINE s == IF v = "sender" THEN i ELSE j
             t == IF v = "sender" THEN j ELSE i
  <1>1. s \in DOMAIN accounts["sender"] /\ t \in DOMAIN accounts["receiver"]
    BY DEF Link!Sides, Link!Other
  <1>2. \A u \in Link!Sides : \A p \in DOMAIN accounts[u] :
            <<version[u], p>> \in Link!Ids(u) /\ accounts[u][p] \in Names[u]
    <2> TAKE u \in Link!Sides
    <2> TAKE p \in DOMAIN accounts[u]
    <2>1. accounts[u] \in Seq(Names[u]) /\ Len(accounts[u]) <= MaxAccounts[u]
          /\ version[u] \in 0..MaxReplaced /\ MaxAccounts[u] \in Nat
      BY DecisionsConstants DEF DecisionsInv, Link!TypeOK
    <2>2. p \in 1..MaxAccounts[u] /\ accounts[u][p] \in Names[u]
      BY <2>1
    <2> QED BY <2>1, <2>2 DEF Link!Ids
  <1>3. version["sender"] \in Int /\ version["receiver"] \in Int
    BY DEF DecisionsInv, Link!TypeOK, Link!Sides
  <1>4. Link!CanonicalRow(v, i, j, d) =
            [your |-> <<version["sender"], s>>, their |-> <<version["receiver"], t>>,
             yourName |-> accounts["sender"][s], theirName |-> accounts["receiver"][t],
             decision |-> d]
    BY DEF Link!CanonicalRow
  <1> HIDE DEF s, t
  <1>5. Link!CanonicalRow(v, i, j, d) \in Link!Row
    BY <1>1, <1>2, <1>4 DEF Link!Row, Link!Sides
  <1>6. Backed(Link!CanonicalRow(v, i, j, d))
    BY <1>1, <1>3, <1>4 DEF Backed, Live
  <1> QED BY <1>5, <1>6

LEMMA DecisionsStepInv == DecisionsInv /\ [Link!Next]_Link!vars => DecisionsInv'
  <1> SUFFICES ASSUME DecisionsInv, [Link!Next]_Link!vars PROVE DecisionsInv'
    OBVIOUS
  <1> USE DEF DecisionsInv
  <1>1. ASSUME NEW v \in Link!Sides, NEW d \in {"accepted", "rejected"},
               NEW i \in 1..MaxAccounts[v], NEW j \in 1..MaxAccounts[Link!Other(v)],
               Link!SetMatchDecision(v, i, j, d)
        PROVE  DecisionsInv'
    <2>1. /\ deciding' = <<Link!CanonicalRow(v, i, j, d)>>
          /\ UNCHANGED <<accounts, version, rows>>
          /\ Len(Link!Upserted(Link!CanonicalRow(v, i, j, d))) <= MaxDecisions
          /\ i \in DOMAIN accounts[v] /\ j \in DOMAIN accounts[Link!Other(v)]
      BY <1>1 DEF Link!SetMatchDecision
    <2>2. Link!CanonicalRow(v, i, j, d) \in Link!Row /\ Backed(Link!CanonicalRow(v, i, j, d))
      BY <2>1, CanonicalBacked
    <2>3. PICK row \in Link!Row : /\ deciding' = <<row>> /\ Backed(row)
                                 /\ Len(Link!Upserted(row)) <= MaxDecisions
      BY <2>1, <2>2
    <2> QED BY <2>1, <2>3 DEF Link!TypeOK, Link!Upserted, Backed, Live
  <1>2. CASE Link!UpsertDecision
    <2>1. /\ deciding # <<>> /\ rows' = Link!Upserted(Head(deciding)) /\ deciding' = <<>>
          /\ UNCHANGED <<accounts, version>>
      BY <1>2 DEF Link!UpsertDecision
    <2>2. PICK row \in Link!Row : /\ deciding = <<row>> /\ Backed(row)
                                 /\ Len(Link!Upserted(row)) <= MaxDecisions
      BY <2>1
    <2>3. Head(deciding) = row
      BY <2>2
    <2>4. rows \in Seq(Link!Row) /\ OneRowPerPair
      BY DEF Link!TypeOK, OneRowPerPair
    <2>5. /\ rows' \in Seq(Link!Row) /\ Len(rows') <= MaxDecisions
          /\ OneRowPerPair'
          /\ \A k \in DOMAIN rows' : rows'[k] = row \/ \E l \in DOMAIN rows : rows'[k] = rows[l]
      BY <2>1, <2>2, <2>3, <2>4, UpsertedRows DEF OneRowPerPair
    <2>6. \A k \in DOMAIN rows' : Backed(rows'[k])
      BY <2>2, <2>5
    <2>7. \A k \in DOMAIN rows' : Backed(rows[k])'
      BY <2>1, <2>6 DEF Backed, Live
    <2>8. Link!TypeOK'
      BY <2>1, <2>5 DEF Link!TypeOK, OneRowPerPair
    <2> QED BY <2>1, <2>7, <2>8
  <1>3. ASSUME NEW s \in Link!Sides, NEW names \in Link!ListsOf(s), Link!ReplaceAccounts(s, names)
        PROVE  DecisionsInv'
    <2>1. /\ version["sender"] + version["receiver"] < MaxReplaced
          /\ accounts' = [accounts EXCEPT ![s] = names]
          /\ version' = [version EXCEPT ![s] = @ + 1]
          /\ UNCHANGED <<rows, deciding>>
      BY <1>3 DEF Link!ReplaceAccounts
    <2>2. version \in [Link!Sides -> 0..MaxReplaced] /\ DOMAIN accounts = Link!Sides
      BY DEF Link!TypeOK
    <2>3. \A u \in Link!Sides : version[u] \in Nat
      BY <2>2, DecisionsConstants
    <2>4. version[s] < MaxReplaced
      BY <2>1, <2>3, DecisionsConstants DEF Link!Sides
    <2>5. \A u \in Link!Sides : /\ version'[u] = IF u = s THEN version[u] + 1 ELSE version[u]
                                /\ accounts'[u] = IF u = s THEN names ELSE accounts[u]
      BY <2>1, <2>2
    <2>6. DOMAIN accounts' = Link!Sides /\ DOMAIN version' = Link!Sides
      BY <2>1, <2>2
    <2>7. version' \in [Link!Sides -> 0..MaxReplaced]
      BY <2>1, <2>2, <2>3, <2>4, DecisionsConstants
    <2>8. names \in Seq(Names[s]) /\ Len(names) <= MaxAccounts[s]
      BY ListsTyped
    <2>9. \A u \in Link!Sides : /\ accounts'[u] \in Seq(Names[u])
                                /\ Len(accounts'[u]) <= MaxAccounts[u]
      BY <2>5, <2>8 DEF Link!TypeOK
    <2>10. Link!TypeOK'
      BY <2>1, <2>6, <2>7, <2>9 DEF Link!TypeOK
    <2>11. ASSUME NEW row \in Link!Row, Backed(row) PROVE Backed(row)'
      <3>1. row.your[1] \in Int /\ row.their[1] \in Int
        BY DEF Link!Row, Link!Ids
      <3> QED BY <3>1, <2>3, <2>5, <2>11 DEF Backed, Live, Link!Sides
    <2>12. \A k \in DOMAIN rows : rows[k] \in Link!Row
      BY DEF Link!TypeOK
    <2>13. \A row : Link!Upserted(row)' = Link!Upserted(row)
      BY <2>1 DEF Link!Upserted
    <2>14. accounts' = [u \in Link!Sides |-> accounts'[u]]
      BY <2>1, <2>2
    <2>15. \A k \in DOMAIN rows' : Backed(rows[k])'
      BY <2>1, <2>11, <2>12
    <2>16. ASSUME deciding' # <<>>
           PROVE  \E row \in Link!Row : /\ deciding' = <<row>> /\ Backed(row)'
                                         /\ Len(Link!Upserted(row)') <= MaxDecisions
      BY <2>1, <2>11, <2>13, <2>16
    <2> QED BY <2>10, <2>14, <2>15, <2>16
  <1>4. CASE Link!DeleteConnection
    <2>1. /\ rows' = <<>> /\ deciding' = <<>> /\ version' = [s \in Link!Sides |-> 0]
          /\ UNCHANGED accounts
      BY <1>4 DEF Link!DeleteConnection
    <2>2. rows' \in Seq(Link!Row) /\ Len(rows') = 0 /\ DOMAIN rows' = {}
      BY <2>1
    <2>3. version' \in [Link!Sides -> 0..MaxReplaced]
      BY <2>1, DecisionsConstants
    <2> QED BY <2>1, <2>2, <2>3, DecisionsConstants DEF Link!TypeOK
  <1>5. CASE UNCHANGED Link!vars
    BY <1>5 DEF Link!vars, Link!TypeOK, Link!Upserted, Backed, Live
  <1> QED BY <1>1, <1>2, <1>3, <1>4, <1>5 DEF Link!Next

------------------------------------------------------------------------------
(* The pair a decision is about *)

LEMMA LeastExists ==
    ASSUME NEW T \in SUBSET Nat, T # {}
    PROVE  \E x \in T : \A y \in T : x <= y
  <1> DEFINE Less == {p \in Nat \X Nat : p[1] < p[2]}
  <1>1. IsWellFoundedOn(Less, Nat)
    BY NatLessThanWellFounded DEF OpToRel
  <1>2. \A x, y \in Nat : x < y => <<x, y>> \in Less
    OBVIOUS
  <1> HIDE DEF Less
  <1>3. PICK x \in T : \A y \in T : <<y, x>> \notin Less
    BY <1>1, WFMin
  <1>4. ASSUME NEW y \in T PROVE x <= y
    <2>1. x \in Nat /\ y \in Nat
      OBVIOUS
    <2>2. ~(y < x)
      BY <1>2, <1>3, <2>1
    <2> QED BY <2>1, <2>2
  <1> QED BY <1>4

\* The first of a set of positions is one of them.
LEMMA FirstIsThere ==
    ASSUME NEW T \in SUBSET Nat, T # {}
    PROVE  Link!First(T) \in T
  <1>1. \E x \in T : \A y \in T : x <= y
    BY LeastExists
  <1> QED BY <1>1 DEF Link!First

LEMMA BestOfItsName ==
    ASSUME DecisionsInv, NEW s \in Link!Sides, NEW name, name \in Link!ToSet(accounts[s])
    PROVE  \E i \in DOMAIN accounts[s] : Link!Best(s, name) = {i} /\ accounts[s][i] = name
  <1> DEFINE exact == {i \in DOMAIN accounts[s] : accounts[s][i] = name}
  <1>1. DOMAIN accounts[s] \in SUBSET Nat
    <2>1. accounts[s] \in Seq(Names[s])
      BY DEF DecisionsInv, Link!TypeOK
    <2> QED BY <2>1
  <1>2. exact # {} /\ exact \in SUBSET Nat
    BY <1>1 DEF Link!ToSet
  <1>3. Link!Best(s, name) = {Link!First(exact)}
    BY <1>2, Zenon DEF Link!Best
  <1>4. Link!First(exact) \in exact
    BY <1>2, FirstIsThere
  <1> QED BY <1>3, <1>4

LEMMA OtherSide ==
    ASSUME NEW v \in Link!Sides
    PROVE  Link!Other(v) \in Link!Sides /\ Link!Other(v) # v /\ Link!Other(Link!Other(v)) = v
  BY DEF Link!Sides, Link!Other

\* The two sides of a row as one user sees them, and what is known of their ids.
LEMMA OrientedRow ==
    ASSUME NEW v \in Link!Sides, NEW row \in Link!Row, Backed(row)
    PROVE  LET ids == Link!Oriented(v, <<row.your, row.their>>)
               names == Link!Snapshot(v, row)
           IN  /\ Live(v, ids[1], names[1]) /\ Live(Link!Other(v), ids[2], names[2])
               /\ ids[1] \in Link!Ids(v) /\ ids[2] \in Link!Ids(Link!Other(v))
               /\ names = <<names[1], names[2]>>
  BY DEF Link!Sides, Link!Other, Link!Oriented, Link!Snapshot, Backed, Link!Row

LEMMA ResolvedNames ==
    ASSUME DecisionsInv, NEW v \in Link!Sides, NEW row \in Link!Row, Backed(row),
           Link!Snapshot(v, row)[1] \in Link!ToSet(accounts[v]),
           Link!Snapshot(v, row)[2] \in Link!ToSet(accounts[Link!Other(v)])
    PROVE  \E i \in DOMAIN accounts[v], j \in DOMAIN accounts[Link!Other(v)] :
               /\ Link!Resolve(v, row) = {<<i, j>>}
               /\ accounts[v][i] = Link!Snapshot(v, row)[1]
               /\ accounts[Link!Other(v)][j] = Link!Snapshot(v, row)[2]
  <1> DEFINE ids == Link!Oriented(v, <<row.your, row.their>>)
             names == Link!Snapshot(v, row)
  <1>1. Live(v, ids[1], names[1]) /\ Live(Link!Other(v), ids[2], names[2])
    BY OrientedRow
  <1>2. CASE Link!Present(v, ids[1]) /\ Link!Present(Link!Other(v), ids[2])
    <2>1. Link!Resolve(v, row) = {<<ids[1][2], ids[2][2]>>}
      BY <1>2 DEF Link!Resolve
    <2>2. /\ ids[1][2] \in DOMAIN accounts[v] /\ accounts[v][ids[1][2]] = names[1]
          /\ ids[2][2] \in DOMAIN accounts[Link!Other(v)]
          /\ accounts[Link!Other(v)][ids[2][2]] = names[2]
      BY <1>1, <1>2 DEF Link!Present, Live
    <2> HIDE DEF ids, names
    <2> QED BY <2>1, <2>2 DEF names
  <1>3. CASE ~(Link!Present(v, ids[1]) /\ Link!Present(Link!Other(v), ids[2]))
    <2>1. Link!Resolve(v, row) = Link!Best(v, names[1]) \X Link!Best(Link!Other(v), names[2])
      BY <1>3 DEF Link!Resolve
    <2>2. PICK i \in DOMAIN accounts[v] :
              Link!Best(v, names[1]) = {i} /\ accounts[v][i] = names[1]
      BY BestOfItsName
    <2>3. PICK j \in DOMAIN accounts[Link!Other(v)] :
              Link!Best(Link!Other(v), names[2]) = {j} /\ accounts[Link!Other(v)][j] = names[2]
      BY BestOfItsName, OtherSide
    <2>4. Link!Resolve(v, row) = {<<i, j>>}
      BY <2>1, <2>2, <2>3
    <2> QED BY <2>2, <2>3, <2>4
  <1> QED BY <1>2, <1>3

LEMMA FollowsNames == DecisionsInv => Link!DecisionFollowsItsNames
  <1> SUFFICES ASSUME DecisionsInv, NEW v \in Link!Sides, NEW k \in DOMAIN rows,
                      Link!Snapshot(v, rows[k])[1] \in Link!ToSet(accounts[v]),
                      Link!Snapshot(v, rows[k])[2] \in Link!ToSet(accounts[Link!Other(v)])
               PROVE  {Link!NamesOf(v, p) : p \in Link!Resolve(v, rows[k])}
                      = {Link!Snapshot(v, rows[k])}
    BY DEF Link!DecisionFollowsItsNames, Link!Snapshot
  <1>1. rows[k] \in Link!Row /\ Backed(rows[k])
    BY DEF DecisionsInv, Link!TypeOK
  <1>2. PICK i \in DOMAIN accounts[v], j \in DOMAIN accounts[Link!Other(v)] :
               /\ Link!Resolve(v, rows[k]) = {<<i, j>>}
               /\ accounts[v][i] = Link!Snapshot(v, rows[k])[1]
               /\ accounts[Link!Other(v)][j] = Link!Snapshot(v, rows[k])[2]
    BY <1>1, ResolvedNames
  <1>3. Link!Snapshot(v, rows[k]) = <<Link!Snapshot(v, rows[k])[1], Link!Snapshot(v, rows[k])[2]>>
    BY <1>1, OrientedRow
  <1>4. Link!NamesOf(v, <<i, j>>) = Link!Snapshot(v, rows[k])
    BY <1>2, <1>3 DEF Link!NamesOf
  <1>5. {Link!NamesOf(v, p) : p \in Link!Resolve(v, rows[k])} = {Link!NamesOf(v, <<i, j>>)}
    BY <1>2
  <1> QED BY <1>4, <1>5

------------------------------------------------------------------------------
(* Both users see the same decisions *)

LEMMA ResolveMirrored ==
    ASSUME NEW row
    PROVE  \A i, j : <<i, j>> \in Link!Resolve("sender", row)
                     <=> <<j, i>> \in Link!Resolve("receiver", row)
  BY DEF Link!Resolve, Link!Oriented, Link!Snapshot, Link!Other

LEMMA ResolvePairs ==
    ASSUME NEW v, NEW row, NEW p \in Link!Resolve(v, row)
    PROVE  p = <<p[1], p[2]>>
  BY DEF Link!Resolve

LEMMA DecidedMirrored ==
    ASSUME NEW d, NEW i, NEW j
    PROVE  <<i, j>> \in Link!DecidedPairs("sender", d)
           <=> <<j, i>> \in Link!DecidedPairs("receiver", d)
  BY ResolveMirrored DEF Link!DecidedPairs

LEMMA KeysMirrored ==
    ASSUME NEW i, NEW j
    PROVE  Link!AcceptedKey("sender", <<i, j>>) = Link!AcceptedKey("receiver", <<j, i>>)
  <1> DEFINE Accepting(v, p) == {k \in DOMAIN rows : rows[k].decision = "accepted"
                                                      /\ p \in Link!Resolve(v, rows[k])}
             Latest(S) == CHOOSE k \in S : \A l \in S : l <= k
             s == Accepting("sender", <<i, j>>)
             r == Accepting("receiver", <<j, i>>)
  <1>1. s = r
    BY ResolveMirrored
  <1>2. Link!AcceptedKey("sender", <<i, j>>)
            = Link!Oriented("sender", Link!Snapshot("sender", rows[Latest(s)]))
    BY DEF Link!AcceptedKey
  <1>3. Link!AcceptedKey("receiver", <<j, i>>)
            = Link!Oriented("receiver", Link!Snapshot("receiver", rows[Latest(r)]))
    BY DEF Link!AcceptedKey
  <1> HIDE DEF s, r, Latest
  <1>4. \A row : Link!Oriented("sender", Link!Snapshot("sender", row))
                 = Link!Oriented("receiver", Link!Snapshot("receiver", row))
    BY DEF Link!Oriented, Link!Snapshot
  <1> QED BY <1>1, <1>2, <1>3, <1>4

LEMMA ViewsMirrored == Link!MirroredViews
  <1> DEFINE Acc(v) == {<<Link!Oriented(v, p), Link!AcceptedKey(v, p)>> :
                           p \in Link!DecidedPairs(v, "accepted")}
             Rej(v) == {Link!Oriented(v, p) : p \in Link!DecidedPairs(v, "rejected")}
  <1>1. \A v, d : \A p \in Link!DecidedPairs(v, d) : p = <<p[1], p[2]>>
    BY ResolvePairs DEF Link!DecidedPairs
  <1>2. \A i, j : /\ Link!Oriented("sender", <<i, j>>) = <<i, j>>
                  /\ Link!Oriented("receiver", <<i, j>>) = <<j, i>>
    BY DEF Link!Oriented
  <1>3. Acc("sender") = Acc("receiver")
    <2>1. ASSUME NEW p \in Link!DecidedPairs("sender", "accepted")
          PROVE  <<Link!Oriented("sender", p), Link!AcceptedKey("sender", p)>> \in Acc("receiver")
      <3>1. PICK i, j : p = <<i, j>>
        BY <1>1
      <3>2. <<j, i>> \in Link!DecidedPairs("receiver", "accepted")
        BY <2>1, <3>1, DecidedMirrored
      <3>3. /\ Link!Oriented("sender", p) = Link!Oriented("receiver", <<j, i>>)
            /\ Link!AcceptedKey("sender", p) = Link!AcceptedKey("receiver", <<j, i>>)
        BY <3>1, <1>2, KeysMirrored
      <3> QED BY <3>2, <3>3
    <2>2. ASSUME NEW p \in Link!DecidedPairs("receiver", "accepted")
          PROVE  <<Link!Oriented("receiver", p), Link!AcceptedKey("receiver", p)>> \in Acc("sender")
      <3>1. PICK i, j : p = <<j, i>>
        BY <1>1
      <3>2. <<i, j>> \in Link!DecidedPairs("sender", "accepted")
        BY <2>2, <3>1, DecidedMirrored
      <3>3. /\ Link!Oriented("receiver", p) = Link!Oriented("sender", <<i, j>>)
            /\ Link!AcceptedKey("receiver", p) = Link!AcceptedKey("sender", <<i, j>>)
        BY <3>1, <1>2, KeysMirrored
      <3> QED BY <3>2, <3>3
    <2> QED BY <2>1, <2>2
  <1>4. Rej("sender") = Rej("receiver")
    <2>1. ASSUME NEW p \in Link!DecidedPairs("sender", "rejected")
          PROVE  Link!Oriented("sender", p) \in Rej("receiver")
      <3>1. PICK i, j : p = <<i, j>>
        BY <1>1
      <3> QED BY <3>1, <2>1, <1>2, DecidedMirrored
    <2>2. ASSUME NEW p \in Link!DecidedPairs("receiver", "rejected")
          PROVE  Link!Oriented("receiver", p) \in Rej("sender")
      <3>1. PICK i, j : p = <<j, i>>
        BY <1>1
      <3> QED BY <3>1, <2>2, <1>2, DecidedMirrored
    <2> QED BY <2>1, <2>2
  <1> QED BY <1>3, <1>4 DEF Link!MirroredViews, Link!DecisionOptions

------------------------------------------------------------------------------
(* Publishing the same accounts again *)

\* What Best is, in each case.
LEMMA BestUnchanged ==
    ASSUME accounts' = accounts, NEW s, NEW name
    PROVE  Link!Best(s, name)' = Link!Best(s, name)
  <1> DEFINE exact == {i \in DOMAIN accounts[s] : accounts[s][i] = name}
             best  == {i \in Link!Similar(s, name) : \A j \in Link!Similar(s, name) :
                          Score[s][name, accounts[s][j]] <= Score[s][name, accounts[s][i]]}
  <1>1. exact' = exact
    OBVIOUS
  <1>2. Link!Similar(s, name)' = Link!Similar(s, name)
    BY DEF Link!Similar
  <1>3. best' = best
    BY <1>2
  <1>4. \A T : Link!First(T)' = Link!First(T)
    BY DEF Link!First
  <1>5. Link!Best(s, name) = CASE exact # {} -> {Link!First(exact)}
                               [] exact = {} /\ best # {} -> {Link!First(best)}
                               [] OTHER -> {}
    BY Zenon DEF Link!Best
  <1>6. Link!Best(s, name)' = CASE exact' # {} -> {Link!First(exact')}
                                [] exact' = {} /\ best' # {} -> {Link!First(best')}
                                [] OTHER -> {}
    BY Zenon DEF Link!Best
  <1> HIDE DEF exact, best
  <1> QED BY <1>1, <1>3, <1>5, <1>6, Zenon

LEMMA SameFileResolves ==
    ASSUME DecisionsInv, Link!ReplacedBySame,
           NEW v \in Link!Sides, NEW row \in Link!Row, Backed(row)
    PROVE  Link!Resolve(v, row)' = Link!Resolve(v, row)
  <1> DEFINE w == Link!Other(v)
             ids == Link!Oriented(v, <<row.your, row.their>>)
             names == Link!Snapshot(v, row)
  <1>1. PICK s \in Link!Sides : Link!ReplaceAccounts(s, accounts[s])
    BY DEF Link!ReplacedBySame
  <1>2. accounts' = accounts
    BY <1>1 DEF Link!ReplaceAccounts, DecisionsInv
  <1>3. s \in {v, w} /\ version[s] \in Nat /\ version'[s] = version[s] + 1
    BY <1>1, DecisionsConstants
       DEF Link!ReplaceAccounts, DecisionsInv, Link!TypeOK, Link!Sides, Link!Other
  <1>4. /\ Live(v, ids[1], names[1]) /\ Live(w, ids[2], names[2])
        /\ ids[1] \in Link!Ids(v) /\ ids[2] \in Link!Ids(w)
    BY OrientedRow
  <1>5. ids' = ids /\ names' = names
    BY DEF Link!Oriented, Link!Snapshot
  <1>6. ~(Link!Present(v, ids[1])' /\ Link!Present(w, ids[2])')
    BY <1>3, <1>4 DEF Link!Present, Live, Link!Ids
  <1>7. Link!Resolve(v, row)' = Link!Best(v, names[1]) \X Link!Best(w, names[2])
    <2>1. Link!Resolve(v, row)' = Link!Best(v, names[1])' \X Link!Best(w, names[2])'
      BY <1>6 DEF Link!Resolve
    <2>2. /\ Link!Best(v, names[1])' = Link!Best(v, names[1])
          /\ Link!Best(w, names[2])' = Link!Best(w, names[2])
      BY <1>2, BestUnchanged
    <2> QED BY <2>1, <2>2
  <1>8. CASE Link!Present(v, ids[1]) /\ Link!Present(w, ids[2])
    <2>1. /\ ids[1][2] \in DOMAIN accounts[v] /\ accounts[v][ids[1][2]] = names[1]
          /\ ids[2][2] \in DOMAIN accounts[w] /\ accounts[w][ids[2][2]] = names[2]
      BY <1>4, <1>8 DEF Link!Present, Live
    <2>2. Link!Resolve(v, row) = {<<ids[1][2], ids[2][2]>>}
      BY <1>8 DEF Link!Resolve
    <2>3. Link!IsInjective(accounts[v]) /\ Link!IsInjective(accounts[w])
      BY OtherSide DEF Link!ReplacedBySame
    <2> HIDE DEF ids, names
    <2>4. Link!Best(v, names[1]) = {ids[1][2]}
      BY <2>1, <2>3, BestOfItsName DEF Link!IsInjective, Link!ToSet
    <2>5. Link!Best(w, names[2]) = {ids[2][2]}
      BY <2>1, <2>3, BestOfItsName, OtherSide DEF Link!IsInjective, Link!ToSet
    <2> QED BY <1>7, <2>2, <2>4, <2>5
  <1>9. CASE ~(Link!Present(v, ids[1]) /\ Link!Present(w, ids[2]))
    BY <1>7, <1>9 DEF Link!Resolve
  <1> QED BY <1>8, <1>9

LEMMA SameFileOptions ==
    ASSUME DecisionsInv, Link!ReplacedBySame, NEW v \in Link!Sides
    PROVE  Link!NamedOptions(v)' = Link!NamedOptions(v)
  <1>1. accounts' = accounts /\ rows' = rows
    BY DEF Link!ReplacedBySame, Link!ReplaceAccounts, DecisionsInv
  <1>2. \A k \in DOMAIN rows : Link!Resolve(v, rows[k])' = Link!Resolve(v, rows[k])
    <2> TAKE k \in DOMAIN rows
    <2>1. rows[k] \in Link!Row /\ Backed(rows[k])
      BY DEF DecisionsInv, Link!TypeOK
    <2>2. PICK row \in Link!Row : row = rows[k] /\ Backed(row)
      BY <2>1
    <2>3. Link!Resolve(v, row)' = Link!Resolve(v, row)
      BY <2>2, SameFileResolves
    <2>4. Link!Resolve(v, rows[k])' = Link!Resolve(v, row)'
      BY <1>1, <2>2 DEF Link!Resolve, Link!Snapshot
    <2> QED BY <2>2, <2>3, <2>4
  <1>3. \A d : Link!DecidedPairs(v, d)' = Link!DecidedPairs(v, d)
    BY <1>1, <1>2 DEF Link!DecidedPairs
  <1>4. \A p : Link!AcceptedKey(v, p)' = Link!AcceptedKey(v, p)
    BY <1>1, <1>2 DEF Link!AcceptedKey, Link!Snapshot
  <1>5. \A p : Link!NamesOf(v, p)' = Link!NamesOf(v, p)
    BY <1>1 DEF Link!NamesOf
  <1>6. {<<Link!NamesOf(v, p), Link!AcceptedKey(v, p)>> : p \in Link!DecidedPairs(v, "accepted")}'
        = {<<Link!NamesOf(v, p), Link!AcceptedKey(v, p)>> : p \in Link!DecidedPairs(v, "accepted")}
    BY <1>3, <1>4, <1>5
  <1>7. {Link!NamesOf(v, p) : p \in Link!DecidedPairs(v, "rejected")}'
        = {Link!NamesOf(v, p) : p \in Link!DecidedPairs(v, "rejected")}
    BY <1>3, <1>5
  <1> QED BY <1>6, <1>7, Zenon DEF Link!NamedOptions

------------------------------------------------------------------------------

LEMMA LinkRuns == SharedSpec => Link!Spec
  <1>1. SharedInit => Link!Init
    BY DEF SharedInit
  <1>2. [KeepLists \/ DecidePairs \/ FindMatches]_allVars => [Link!Next]_Link!vars
    BY DEF KeepLists, DecidePairs, FindMatches, allVars, decisionVars, Link!vars
  <1> QED BY <1>1, <1>2, PTL DEF SharedSpec, Link!Spec

LEMMA DecisionsInvariance == SharedSpec => []DecisionsInv
  BY LinkRuns, DecisionsInitInv, DecisionsStepInv, PTL DEF Link!Spec

\* Both users of a connection take every decision for the same two accounts and
\* announce an accepted match under the same names, whatever the rows and the
\* lists are.
THEOREM MirroredTheorem == SharedSpec => []MirroredViews
<1>1. MirroredViews
  BY ViewsMirrored DEF MirroredViews
<1>2. QED
  BY <1>1, PTL

\* However often and with whatever the lists are replaced, a decision is about
\* the two names it was made for as long as both lists hold them.
THEOREM FollowsTheorem == SharedSpec => []DecisionFollowsItsNames
<1>1. DecisionsInv => DecisionFollowsItsNames
  BY FollowsNames DEF DecisionFollowsItsNames
<1>2. QED
  BY <1>1, DecisionsInvariance, PTL

\* Replacing a list by the same names in the same order changes no decision and
\* no announcement, when no list holds a name twice.
THEOREM SameFileTheorem == SharedSpec => SameFileChangesNothing
<1>1. DecisionsInv =>
          [Link!ReplacedBySame => \A v \in Link!Sides :
               Link!NamedOptions(v)' = Link!NamedOptions(v)]_Link!vars
  BY SameFileOptions
<1>2. QED
  BY <1>1, DecisionsInvariance, PTL DEF SameFileChangesNothing, Link!SameFileChangesNothing

\* The lists of a user and the decisions of a connection keep their types, and no
\* pair of accounts gets a second row.
THEOREM PartsTyped == SharedSpec => []PartsTypeOK
<1>1. ListsInv /\ DecisionsInv => PartsTypeOK
  BY DEF ListsInv, DecisionsInv, PartsTypeOK
<1>2. QED
  BY <1>1, ListsInvariance, DecisionsInvariance, PTL
================================================================================
