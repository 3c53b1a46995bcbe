-------------------------- MODULE TextedCodes_proofs ---------------------------
(* Theorems about the texted codes, for any number of concurrent requests,    *)
(* codes and crashes and any throttles: above all that both of them implement *)
(* OneTimeCode.  The first part is about PhoneCode, the others take what      *)
(* PasswordReset_proofs and SmsConsent_proofs show to the three side by side. *)
EXTENDS TextedCodes, FiniteSetTheorems, TLAPS

N == Cardinality(Requests)

\* The requests that have compared a wrong guess and not counted it yet.
Missing == {r \in Requests : At(r, "miss")}

\* A code on its way to the row is new: nobody guessed it, no other has it.
NewInFlight ==
    \A r \in Requests : At(r, "store") =>
        /\ req[r].code \in Codes \ {acct.code}
        /\ guesses[req[r].code] = 0
        /\ \A q \in Requests \ {r} : req[q].code # req[r].code

\* A code is in flight only on its way to the row.
CodesInFlight == \A r \in Requests : ~At(r, "store") => req[r].code = NoCode

\* Attempts, counted or about to be, never pass the limit by more than the
\* other requests; every guess is among them, or was lost in a crash.
AttemptsBounded == acct.attempts + Cardinality(Missing) <= MaxAttempts - 1 + N
GuessesCounted ==
    acct.code # NoCode =>
        guesses[acct.code] <= acct.attempts + Cardinality(Missing) + N * restarts

VerifiedHasNoCode == acct.verified => acct.code = NoCode

Counting == /\ NewInFlight /\ CodesInFlight
            /\ AttemptsBounded /\ GuessesCounted /\ VerifiedHasNoCode

IInv == TypeOK /\ Counting

------------------------------------------------------------------------------
(* Numbers *)

LEMMA Numbers ==
    /\ N \in Nat /\ AttemptsCap = MaxAttempts + N
    /\ AttemptsCap \in Nat /\ GuessCap \in Nat
    /\ \A k \in Nat : N * k \in Nat /\ N * (k + 1) = N * k + N
    /\ \A k \in 0..MaxRestarts : N * k + MaxAttempts + N <= GuessCap
  <1>1. N \in Nat
    BY ThrottleAssumption, FS_CardinalityType DEF N
  <1>2. \A k \in Nat : N * k \in Nat /\ N * (k + 1) = N * k + N
    BY <1>1
  <1>3. AttemptsCap = MaxAttempts + N /\ GuessCap = MaxAttempts + N * (MaxRestarts + 1)
    BY DEF AttemptsCap, GuessCap, N
  <1>4. AttemptsCap \in Nat /\ GuessCap \in Nat
    BY <1>1, <1>2, <1>3, ThrottleAssumption
  <1>5. ASSUME NEW k \in 0..MaxRestarts PROVE N * k + MaxAttempts + N <= GuessCap
    <2>1. N * k <= N * MaxRestarts
      BY <1>1, ThrottleAssumption
    <2>2. N * MaxRestarts \in Nat /\ N * (MaxRestarts + 1) = N * MaxRestarts + N /\ N * k \in Nat
      BY <1>2, ThrottleAssumption
    <2> QED BY <1>1, <1>3, <2>1, <2>2, ThrottleAssumption
  <1> QED BY <1>1, <1>2, <1>3, <1>4, <1>5

LEMMA CappedTyped ==
    ASSUME NEW max \in Nat, NEW n \in 0..max
    PROVE  Capped(n, max) \in 0..max /\ Capped(n, max) <= n + 1 /\ (n < max => Capped(n, max) = n + 1)
  BY DEF Capped

LEMMA MissingCount ==
    /\ IsFiniteSet(Missing) /\ Cardinality(Missing) \in Nat /\ Cardinality(Missing) <= N
    /\ \A r \in Requests : r \notin Missing => Cardinality(Missing) <= N - 1
  <1>1. Missing \subseteq Requests /\ IsFiniteSet(Requests)
    BY ThrottleAssumption DEF Missing
  <1>2. IsFiniteSet(Missing) /\ Cardinality(Missing) <= N
    BY <1>1, FS_Subset DEF N
  <1>3. Cardinality(Missing) \in Nat
    BY <1>2, FS_CardinalityType
  <1>4. ASSUME NEW r \in Requests, r \notin Missing PROVE Cardinality(Missing) <= N - 1
    <2>1. Missing \subseteq Requests \ {r} /\ IsFiniteSet(Requests \ {r})
      BY <1>1, <1>4, FS_RemoveElement
    <2>2. Cardinality(Requests \ {r}) = N - 1
      BY <1>1, FS_RemoveElement DEF N
    <2> QED BY <2>1, <2>2, FS_Subset
  <1> QED BY <1>2, <1>3, <1>4

------------------------------------------------------------------------------
(* How a step moves a request, and what that does to the count *)

Moves(r, c) == c \in Request /\ req' = [req EXCEPT ![r] = c]

LEMMA IdleTyped == Idle \in Request /\ Idle.pc = "idle" /\ Idle.code = NoCode
  BY ThrottleAssumption DEF Idle, Request

LEMMA Ends ==
    ASSUME TypeOK, NEW r \in Requests, End(r)
    PROVE  Moves(r, Idle)
  BY IdleTyped DEF End, Moves

LEMMA Goes ==
    ASSUME TypeOK, NEW r \in Requests, NEW s, s \in {"renumber", "send", "miss", "hit"},
           NEW p \in {"activation", "profile"}, Goto(r, s, p)
    PROVE  LET c == [req[r] EXCEPT !.pc = s, !.path = p]
           IN  Moves(r, c) /\ c.pc = s /\ c.code = req[r].code
  <1> DEFINE c == [req[r] EXCEPT !.pc = s, !.path = p]
  <1>1. req[r] \in Request
    BY DEF TypeOK
  <1>2. c \in Request /\ c.pc = s /\ c.code = req[r].code
    BY <1>1 DEF Request
  <1>3. req' = [req EXCEPT ![r] = c]
    BY <1>1 DEF Goto, TypeOK
  <1> QED BY <1>2, <1>3 DEF Moves

LEMMA CountMoves ==
    ASSUME TypeOK, NEW r \in Requests, NEW c, Moves(r, c)
    PROVE  /\ Cardinality(Missing') \in Nat
           /\ c.pc # "miss" /\ ~At(r, "miss") => Missing' = Missing
           /\ c.pc # "miss" /\ At(r, "miss") => Cardinality(Missing') = Cardinality(Missing) - 1
           /\ c.pc = "miss" /\ ~At(r, "miss") => Cardinality(Missing') = Cardinality(Missing) + 1
           /\ c.pc # "miss" => Cardinality(Missing') <= Cardinality(Missing)
  <1>1. \A q \in Requests : req'[q] = IF q = r THEN c ELSE req[q]
    BY DEF TypeOK, Moves
  <1>2. c.pc # "miss" => Missing' = Missing \ {r}
    BY <1>1 DEF Missing, At
  <1>3. c.pc = "miss" => Missing' = Missing \cup {r}
    BY <1>1 DEF Missing, At
  <1>4. r \in Missing <=> At(r, "miss")
    BY DEF Missing
  <1>5. /\ IsFiniteSet(Missing) /\ Cardinality(Missing) \in Nat
        /\ IsFiniteSet(Missing \ {r}) /\ IsFiniteSet(Missing \cup {r})
        /\ r \in Missing => Cardinality(Missing \ {r}) = Cardinality(Missing) - 1
        /\ r \notin Missing => Cardinality(Missing \cup {r}) = Cardinality(Missing) + 1
    BY MissingCount, FS_RemoveElement, FS_AddElement
  <1>6. Cardinality(Missing \ {r}) \in Nat /\ Cardinality(Missing \cup {r}) \in Nat
    BY <1>5, FS_CardinalityType
  <1>7. r \notin Missing => Missing \ {r} = Missing
    OBVIOUS
  <1>8. CASE c.pc = "miss"
    BY <1>3, <1>4, <1>5, <1>6, <1>8
  <1>9. CASE c.pc # "miss"
    <2>1. CASE At(r, "miss")
      BY <1>2, <1>4, <1>5, <1>6, <1>9, <2>1
    <2>2. CASE ~At(r, "miss")
      BY <1>2, <1>4, <1>5, <1>6, <1>7, <1>9, <2>2
    <2> QED BY <1>9, <2>1, <2>2
  <1> QED BY <1>8, <1>9

------------------------------------------------------------------------------
(* What the actions do to the code that counts, the attempts and the guesses *)

LEMMA Fields ==
    ASSUME IInv
    PROVE  /\ acct.code \in Codes \cup {NoCode} /\ acct.attempts \in Nat
           /\ restarts \in Nat /\ restarts \in 0..MaxRestarts
           /\ \A c \in Codes : guesses[c] \in Nat
           /\ N * restarts \in Nat /\ Cardinality(Missing) \in Nat /\ N \in Nat
           /\ MaxAttempts \in Nat \ {0}
           /\ acct.code # NoCode => guesses[acct.code] \in Nat
           /\ \A r \in Requests : req[r] \in Request
  <1>1. /\ acct.code \in Codes \cup {NoCode} /\ acct.attempts \in 0..AttemptsCap
        /\ restarts \in 0..MaxRestarts /\ \A c \in Codes : guesses[c] \in 0..GuessCap
        /\ \A r \in Requests : req[r] \in Request
    BY DEF IInv, TypeOK, Account
  <1>2. restarts \in Nat /\ acct.attempts \in Nat /\ \A c \in Codes : guesses[c] \in Nat
    BY <1>1, Numbers, ThrottleAssumption
  <1>3. N * restarts \in Nat /\ N \in Nat
    BY <1>2, Numbers
  <1> QED BY <1>1, <1>2, <1>3, MissingCount, ThrottleAssumption

\* A write that keeps the code and the count of the attempts, or drops the code.
LEMMA Writing ==
    ASSUME IInv, NEW r \in Requests, NEW c, Moves(r, c),
           c.pc \notin {"miss", "store"}, c.code = NoCode,
           UNCHANGED <<guesses, restarts>>,
           acct' \in Account, acct'.verified => acct'.code = NoCode,
           \/ /\ acct'.code = acct.code
              /\ acct'.attempts + Cardinality(Missing') = acct.attempts + Cardinality(Missing)
           \/ acct'.code = NoCode /\ acct'.attempts = 0
    PROVE  IInv' /\ [Once!Next]_(Once!vars)
  <1>1. \A q \in Requests : req'[q] = IF q = r THEN c ELSE req[q]
    BY DEF IInv, TypeOK, Moves
  <1>2. TypeOK'
    BY DEF IInv, TypeOK, Moves
  <1>3. Cardinality(Missing') \in Nat /\ Cardinality(Missing') <= Cardinality(Missing)
    BY CountMoves DEF IInv
  <1>4. acct'.code \in {acct.code, NoCode}
    OBVIOUS
  <1>5. CodesInFlight'
    BY <1>1 DEF IInv, Counting, CodesInFlight, At
  <1>6. NewInFlight'
    BY <1>1, <1>4, ThrottleAssumption DEF IInv, Counting, NewInFlight, At
  <1>7. AttemptsBounded'
    BY <1>3, Fields, MissingCount DEF IInv, Counting, AttemptsBounded
  <1>8. GuessesCounted'
    BY <1>3, Fields DEF IInv, Counting, GuessesCounted
  <1>9. IInv'
    BY <1>2, <1>5, <1>6, <1>7, <1>8 DEF IInv, Counting, VerifiedHasNoCode
  <1>10. CASE acct'.code = acct.code
    BY <1>9, <1>10 DEF Once!vars
  <1>11. CASE acct'.code = NoCode /\ acct.code # NoCode
    <2>1. Once!Clear
      BY <1>11 DEF Once!Clear
    <2> QED BY <1>9, <2>1 DEF Once!Next
  <1> QED BY <1>4, <1>9, <1>10, <1>11

\* A request that only turns to its next step.
LEMMA Turning ==
    ASSUME IInv, NEW r \in Requests, NEW c, Moves(r, c),
           c.pc \notin {"miss", "store"}, c.code = NoCode, ~At(r, "miss"),
           UNCHANGED <<acct, guesses, restarts>>
    PROVE  IInv' /\ [Once!Next]_(Once!vars)
  <1>1. Missing' = Missing
    BY CountMoves DEF IInv
  <1>2. acct' \in Account /\ (acct'.verified => acct'.code = NoCode)
    BY DEF IInv, TypeOK, Counting, VerifiedHasNoCode
  <1> QED BY <1>1, <1>2, Writing

\* A text: its code is nobody else's and was never guessed.
LEMMA Texting ==
    ASSUME IInv, NEW r \in Requests, NEW path \in {"activation", "profile"},
           At(r, "idle") \/ At(r, "send"), TextCode(r, path)
    PROVE  IInv' /\ [Once!Next]_(Once!vars)
  <1> DEFINE sends == CASE path = "profile" -> 0
                        [] path = "activation" /\ WindowExpired -> 1
                        [] OTHER -> acct.sends + 1
             c(k) == [pc |-> "store", path |-> path, code |-> k, codeAge |-> 0,
                      newWindow |-> WindowExpired, sends |-> sends]
  <1>1. PICK k \in Fresh : req' = [req EXCEPT ![r] = c(k)] /\ guesses' = [guesses EXCEPT ![k] = 0]
    BY DEF TextCode
  <1>2. acct' = acct /\ restarts' = restarts
    BY DEF TextCode
  <1>3. sends \in 0..MaxSends
    <2>1. acct.sends \in 0..MaxSends /\ MaxSends \in Nat \ {0}
      BY ThrottleAssumption DEF IInv, TypeOK, Account
    <2>2. path = "activation" => WindowExpired \/ acct.sends < MaxSends
      BY DEF TextCode, WithinLimits
    <2>3. CASE path = "profile"
      BY <2>1, <2>3
    <2>4. CASE path = "activation" /\ WindowExpired
      BY <2>1, <2>4
    <2>5. CASE path = "activation" /\ ~WindowExpired
      BY <2>1, <2>2, <2>5
    <2> QED BY <2>3, <2>4, <2>5
  <1>4. k \in Codes /\ k # acct.code /\ \A q \in Requests : req[q].code # k
    BY DEF Fresh
  <1> HIDE DEF sends
  <1>5. c(k) \in Request
    <2>1. 0 \in 0..(CodeTtl + 1) /\ WindowExpired \in BOOLEAN
      BY ThrottleAssumption DEF WindowExpired
    <2> QED BY <1>3, <1>4, <2>1 DEF Request
  <1>6. c(k).pc = "store" /\ c(k).code = k
    OBVIOUS
  <1> HIDE DEF c
  <1>7. Moves(r, c(k)) /\ \A q \in Requests : req'[q] = IF q = r THEN c(k) ELSE req[q]
    BY <1>1, <1>5 DEF Moves, IInv, TypeOK
  <1>8. Missing' = Missing
    BY <1>6, <1>7, CountMoves DEF IInv, At
  <1>9. guesses' \in [Codes -> 0..GuessCap]
    BY <1>1, <1>4, Numbers DEF IInv, TypeOK
  <1>10. TypeOK'
    BY <1>2, <1>7, <1>9 DEF IInv, TypeOK, Moves
  <1>11. NewInFlight'
    BY <1>1, <1>2, <1>4, <1>6, <1>7 DEF IInv, TypeOK, Counting, NewInFlight, At
  <1>12. CodesInFlight'
    BY <1>6, <1>7 DEF IInv, Counting, CodesInFlight, At
  <1>13. acct.code # NoCode => guesses'[acct.code] = guesses[acct.code]
    BY <1>1, <1>4, Fields DEF IInv, TypeOK
  <1>14. AttemptsBounded' /\ GuessesCounted' /\ VerifiedHasNoCode'
    BY <1>2, <1>8, <1>13 DEF IInv, Counting, AttemptsBounded, GuessesCounted, VerifiedHasNoCode
  <1>15. UNCHANGED Once!vars
    BY <1>2, <1>13 DEF Once!vars
  <1> QED BY <1>10, <1>11, <1>12, <1>14, <1>15 DEF IInv, Counting

LEMMA Sending ==
    ASSUME IInv, NEW r \in Requests, SendAfterRenumber(r)
    PROVE  IInv' /\ [Once!Next]_(Once!vars)
  <1>1. CASE TextCode(r, "activation")
    BY <1>1, Texting DEF SendAfterRenumber
  <1>2. CASE End(r) /\ UNCHANGED <<acct, guesses, restarts>>
    <2>1. ~At(r, "miss")
      BY DEF SendAfterRenumber, At
    <2> QED BY <1>2, <2>1, Ends, IdleTyped, Turning DEF IInv
  <1> QED BY <1>1, <1>2 DEF SendAfterRenumber

\* The store of a code: the wrong guesses of the old one are forgotten with it.
LEMMA Storing ==
    ASSUME IInv, NEW r \in Requests, StoreCode(r)
    PROVE  IInv' /\ [Once!Next]_(Once!vars)
  <1>1. At(r, "store") /\ Moves(r, Idle) /\ UNCHANGED <<guesses, restarts>> /\ acct' = Stored(r)
    BY Ends DEF StoreCode, IInv
  <1>2. \A q \in Requests : req'[q] = IF q = r THEN Idle ELSE req[q]
    BY <1>1 DEF IInv, TypeOK, Moves
  <1>3. /\ req[r].code \in Codes \ {acct.code} /\ guesses[req[r].code] = 0
        /\ \A q \in Requests \ {r} : req[q].code # req[r].code
    BY <1>1 DEF IInv, Counting, NewInFlight
  <1>4. acct' \in Account /\ acct'.code = req[r].code /\ acct'.attempts = 0 /\ acct'.verified = FALSE
    <2>1. req[r] \in Request /\ acct \in Account
      BY DEF IInv, TypeOK
    <2>2. 0 \in 0..AttemptsCap /\ 0 \in 0..Cooldown /\ 0 \in 0..(Window + 1)
      BY Numbers, ThrottleAssumption
    <2>3. /\ req[r].code \in Codes \cup {NoCode} /\ req[r].codeAge \in 0..(CodeTtl + 1)
          /\ req[r].sends \in 0..MaxSends
      BY <2>1 DEF Request
    <2> QED BY <1>1, <2>1, <2>2, <2>3 DEF Stored, Account
  <1>5. Missing' = Missing /\ Cardinality(Missing) <= N - 1
    <2>1. ~At(r, "miss") /\ r \notin Missing
      BY <1>1 DEF At, Missing
    <2> QED BY <1>1, <2>1, CountMoves, IdleTyped, MissingCount DEF IInv
  <1>6. TypeOK'
    BY <1>1, <1>4 DEF IInv, TypeOK, Moves
  <1>7. NewInFlight'
    <2> SUFFICES ASSUME NEW q \in Requests, At(q, "store")'
                 PROVE  /\ req'[q].code \in Codes \ {acct'.code}
                        /\ guesses'[req'[q].code] = 0
                        /\ \A p \in Requests \ {q} : req'[p].code # req'[q].code
      BY DEF NewInFlight
    <2>1. q # r /\ req'[q] = req[q] /\ At(q, "store")
      BY <1>2, IdleTyped DEF At
    <2>2. /\ req[q].code \in Codes /\ guesses[req[q].code] = 0
          /\ \A p \in Requests \ {q} : req[p].code # req[q].code
      BY <2>1 DEF IInv, Counting, NewInFlight
    <2>3. req[q].code # acct'.code /\ req[q].code # NoCode
      BY <1>3, <1>4, <2>1, <2>2, ThrottleAssumption
    <2> QED BY <1>1, <1>2, <2>1, <2>2, <2>3, IdleTyped
  <1>8. CodesInFlight'
    BY <1>2, IdleTyped DEF IInv, Counting, CodesInFlight, At
  <1>9. AttemptsBounded' /\ VerifiedHasNoCode'
    BY <1>4, <1>5, Fields DEF AttemptsBounded, VerifiedHasNoCode
  <1>10. GuessesCounted'
    BY <1>1, <1>3, <1>4, <1>5, Fields DEF GuessesCounted
  <1>11. Once!Issue(acct'.code) /\ acct'.code \in Codes
    BY <1>1, <1>3, <1>4, ThrottleAssumption DEF Once!Issue
  <1> QED BY <1>6, <1>7, <1>8, <1>9, <1>10, <1>11 DEF IInv, Counting, Once!Next

LEMMA Renumbering ==
    ASSUME IInv, NEW r \in Requests,
           StartRenumber(r) \/ StartProfileChange(r) \/ Renumber(r)
    PROVE  IInv' /\ [Once!Next]_(Once!vars)
  <1>1. ~At(r, "store") /\ ~At(r, "miss")
    BY DEF StartRenumber, StartProfileChange, Renumber, At
  <1>2. req[r].code = NoCode /\ TypeOK
    BY <1>1 DEF IInv, Counting, CodesInFlight
  <1>3. CASE StartRenumber(r) \/ StartProfileChange(r)
    <2>1. PICK p \in {"activation", "profile"} : Goto(r, "renumber", p)
      BY <1>3 DEF StartRenumber, StartProfileChange
    <2>2. UNCHANGED <<acct, guesses, restarts>>
      BY <1>3 DEF StartRenumber, StartProfileChange
    <2> DEFINE c == [req[r] EXCEPT !.pc = "renumber", !.path = p]
    <2>3. Moves(r, c) /\ c.pc = "renumber" /\ c.code = NoCode
      BY <1>2, <2>1, Goes
    <2> HIDE DEF c
    <2> QED BY <1>1, <2>2, <2>3, Turning
  <1>4. CASE Renumber(r)
    <2>1. PICK c : Moves(r, c) /\ c.pc \in {"send", "idle"} /\ c.code = NoCode
      <3>1. CASE Goto(r, "send", "activation")
        <4> DEFINE c == [req[r] EXCEPT !.pc = "send", !.path = "activation"]
        <4>1. Moves(r, c) /\ c.pc = "send" /\ c.code = NoCode
          BY <1>2, <3>1, Goes
        <4> HIDE DEF c
        <4> QED BY <4>1
      <3>2. CASE End(r)
        BY <1>2, <3>2, Ends, IdleTyped
      <3> QED BY <1>4, <3>1, <3>2 DEF Renumber
    <2>2. NumberForgotten \in Account /\ NumberForgotten.code = NoCode /\ NumberForgotten.attempts = 0
      <3>1. acct \in Account /\ 0 \in 0..AttemptsCap /\ 0 \in 0..(CodeTtl + 1)
        BY <1>2, Numbers, ThrottleAssumption DEF TypeOK
      <3> QED BY <3>1 DEF NumberForgotten, Account
    <2> DEFINE other == [NumberForgotten EXCEPT !.sinceSent = Cooldown]
    <2>3. other \in Account /\ other.code = NoCode /\ other.attempts = 0
      <3>1. Cooldown \in 0..Cooldown
        BY ThrottleAssumption
      <3> HIDE DEF NumberForgotten
      <3> QED BY <2>2, <3>1 DEF Account
    <2>4. acct' \in {NumberForgotten, other} /\ UNCHANGED <<guesses, restarts>>
      BY <1>4 DEF Renumber
    <2> HIDE DEF other
    <2>5. acct' \in Account /\ acct'.code = NoCode /\ acct'.attempts = 0
      BY <2>2, <2>3, <2>4
    <2> QED BY <2>1, <2>4, <2>5, Writing
  <1> QED BY <1>3, <1>4

\* A wrong guess: the account still allows one, and this request is not among
\* those that have one to count.
LEMMA Guessing ==
    ASSUME IInv, NEW r \in Requests, GuessRight(r) \/ GuessWrong(r)
    PROVE  IInv' /\ [Once!Next]_(Once!vars)
  <1>1. At(r, "idle") /\ ~At(r, "store") /\ ~At(r, "miss") /\ AcceptsGuess
    BY DEF GuessRight, GuessWrong, At
  <1>2. req[r].code = NoCode /\ TypeOK
    BY <1>1 DEF IInv, Counting, CodesInFlight
  <1>3. CASE GuessRight(r)
    <2> DEFINE c == [req[r] EXCEPT !.pc = "hit", !.path = "activation"]
    <2>1. Moves(r, c) /\ c.pc = "hit" /\ c.code = NoCode
      BY <1>2, <1>3, Goes DEF GuessRight
    <2>2. UNCHANGED <<acct, guesses, restarts>>
      BY <1>3 DEF GuessRight
    <2> HIDE DEF c
    <2> QED BY <1>1, <2>1, <2>2, Turning
  <1>4. CASE GuessWrong(r)
    <2> DEFINE c == [req[r] EXCEPT !.pc = "miss", !.path = "activation"]
    <2>1. Moves(r, c) /\ c.pc = "miss" /\ c.code = NoCode
      BY <1>2, <1>4, Goes DEF GuessWrong
    <2>2. UNCHANGED <<acct, restarts>> /\ guesses' = [guesses EXCEPT ![acct.code] = Capped(@, GuessCap)]
      BY <1>4 DEF GuessWrong
    <2> HIDE DEF c
    <2>3. \A q \in Requests : req'[q] = IF q = r THEN c ELSE req[q]
      BY <1>2, <2>1 DEF TypeOK, Moves
    <2>4. Cardinality(Missing') = Cardinality(Missing) + 1 /\ Cardinality(Missing) <= N - 1
      <3>1. r \notin Missing
        BY <1>1 DEF Missing
      <3> QED BY <1>1, <1>2, <2>1, <3>1, CountMoves, MissingCount
    <2>5. acct.code \in Codes /\ acct.attempts <= MaxAttempts - 1
      BY <1>1, Fields DEF AcceptsGuess
    <2>6. guesses[acct.code] \in 0..GuessCap
      BY <1>2, <2>5 DEF TypeOK
    <2>7. guesses[acct.code] <= MaxAttempts - 1 + (N - 1) + N * restarts
      BY <2>4, <2>5, Fields, ThrottleAssumption DEF IInv, Counting, GuessesCounted
    <2>8. guesses'[acct.code] = guesses[acct.code] + 1
      <3>1. guesses[acct.code] < GuessCap
        <4>1. N * restarts + MaxAttempts + N <= GuessCap
          BY Fields, Numbers
        <4>2. guesses[acct.code] \in Nat /\ GuessCap \in Nat
          BY <2>5, Fields, Numbers
        <4> QED BY <2>7, <4>1, <4>2, Fields
      <3>2. guesses'[acct.code] = Capped(guesses[acct.code], GuessCap)
        BY <1>2, <2>2, <2>5 DEF TypeOK
      <3> QED BY <2>6, <3>1, <3>2, CappedTyped, Numbers
    <2>9. guesses' \in [Codes -> 0..GuessCap]
      <3>1. Capped(guesses[acct.code], GuessCap) \in 0..GuessCap
        BY <2>6, CappedTyped, Numbers
      <3> QED BY <1>2, <2>2, <3>1 DEF TypeOK
    <2>10. TypeOK'
      BY <1>2, <2>1, <2>2, <2>9 DEF TypeOK, Moves
    <2>11. NewInFlight'
      BY <1>2, <2>1, <2>2, <2>3, ThrottleAssumption DEF IInv, TypeOK, Counting, NewInFlight, At
    <2>12. CodesInFlight'
      BY <2>1, <2>3 DEF IInv, Counting, CodesInFlight, At
    <2>13. AttemptsBounded'
      BY <2>2, <2>4, <2>5, Fields DEF AttemptsBounded
    <2>14. GuessesCounted' /\ VerifiedHasNoCode'
      <3>1. acct.code # NoCode
        BY <1>1 DEF AcceptsGuess
      <3>2. guesses[acct.code] <= acct.attempts + Cardinality(Missing) + N * restarts
        BY <3>1 DEF IInv, Counting, GuessesCounted
      <3>3. guesses[acct.code] + 1 <= acct.attempts + (Cardinality(Missing) + 1) + N * restarts
        BY <2>6, <3>2, Fields, Numbers
      <3> QED BY <2>2, <2>4, <2>8, <3>3 DEF GuessesCounted, IInv, Counting, VerifiedHasNoCode
    <2>15. Once!Miss
      <3>1. guesses[acct.code] < MaxAttempts - 1 + N * (restarts + 1)
        BY <2>6, <2>7, Fields, Numbers
      <3>2. acct.code # NoCode
        BY <1>1 DEF AcceptsGuess
      <3> QED BY <2>2, <2>8, <3>1, <3>2 DEF Once!Miss, Once!Allowed, N
    <2> QED BY <2>10, <2>11, <2>12, <2>13, <2>14, <2>15 DEF IInv, Counting, Once!Next
  <1> QED BY <1>3, <1>4

LEMMA Answering ==
    ASSUME IInv, NEW r \in Requests, CountMiss(r) \/ Verify(r)
    PROVE  IInv' /\ [Once!Next]_(Once!vars)
  <1>1. TypeOK /\ Moves(r, Idle) /\ UNCHANGED <<guesses, restarts>>
    BY Ends DEF CountMiss, Verify, IInv
  <1>2. acct \in Account /\ acct.attempts \in 0..AttemptsCap
    BY <1>1 DEF TypeOK, Account
  <1>3. CASE CountMiss(r)
    <2>1. At(r, "miss")
      BY <1>3 DEF CountMiss
    <2>2. Cardinality(Missing') = Cardinality(Missing) - 1
      BY <1>1, <2>1, CountMoves, IdleTyped
    <2>3. acct.attempts < AttemptsCap
      <3>1. Cardinality(Missing') \in Nat
        BY <1>1, CountMoves
      <3> QED BY <2>2, <3>1, Fields, Numbers DEF IInv, Counting, AttemptsBounded
    <2>4. Capped(acct.attempts, AttemptsCap) = acct.attempts + 1 /\ acct.attempts + 1 \in 0..AttemptsCap
      BY <1>2, <2>3, CappedTyped, Numbers
    <2>5. acct' = [acct EXCEPT !.attempts = acct.attempts + 1]
      BY <1>3, <2>4 DEF CountMiss
    <2>6. /\ acct' \in Account /\ acct'.code = acct.code /\ acct'.verified = acct.verified
          /\ acct'.attempts = acct.attempts + 1
      BY <1>2, <2>4, <2>5 DEF Account
    <2>7. acct'.attempts + Cardinality(Missing') = acct.attempts + Cardinality(Missing)
      BY <2>2, <2>6, Fields
    <2>8. acct'.verified => acct'.code = NoCode
      BY <2>6 DEF IInv, Counting, VerifiedHasNoCode
    <2> QED BY <1>1, <2>6, <2>7, <2>8, IdleTyped, Writing
  <1>4. CASE Verify(r)
    <2>1. acct' \in Account /\ acct'.code = NoCode /\ acct'.attempts = 0
      <3>1. 0 \in 0..AttemptsCap /\ 0 \in 0..(CodeTtl + 1)
        BY Numbers, ThrottleAssumption
      <3> QED BY <1>2, <1>4, <3>1 DEF Verify, Verified, Account
    <2> QED BY <1>1, <2>1, IdleTyped, Writing
  <1> QED BY <1>3, <1>4

\* Time passes for the codes, in the row and on their way to it.
LEMMA Ticking ==
    ASSUME IInv, Tick
    PROVE  IInv' /\ [Once!Next]_(Once!vars)
  <1>1. TypeOK /\ UNCHANGED <<guesses, restarts>>
    BY DEF Tick, IInv
  <1>2. acct' \in Account /\ acct'.code = acct.code /\ acct'.attempts = acct.attempts
        /\ acct'.verified = acct.verified
    <2> DEFINE age == IF acct.code = NoCode THEN 0 ELSE Capped(acct.codeAge, CodeTtl + 1)
               sent == Capped(acct.sinceSent, Cooldown)
               window == Capped(acct.sinceWindow, Window + 1)
    <2>1. acct \in Account
      BY <1>1 DEF TypeOK
    <2>2. /\ acct.codeAge \in 0..(CodeTtl + 1) /\ acct.sinceSent \in 0..Cooldown
          /\ acct.sinceWindow \in 0..(Window + 1)
      BY <2>1 DEF Account
    <2>3. age \in 0..(CodeTtl + 1) /\ sent \in 0..Cooldown /\ window \in 0..(Window + 1)
      <3>1. CodeTtl + 1 \in Nat /\ Cooldown \in Nat /\ Window + 1 \in Nat /\ 0 \in 0..(CodeTtl + 1)
        BY ThrottleAssumption
      <3>2. Capped(acct.codeAge, CodeTtl + 1) \in 0..(CodeTtl + 1)
        BY <2>2, <3>1, CappedTyped
      <3>3. sent \in 0..Cooldown
        BY <2>2, <3>1, CappedTyped
      <3>4. window \in 0..(Window + 1)
        BY <2>2, <3>1, CappedTyped
      <3> QED BY <3>1, <3>2, <3>3, <3>4
    <2>4. acct' = [acct EXCEPT !.codeAge = age, !.sinceSent = sent, !.sinceWindow = window]
      BY DEF Tick
    <2> HIDE DEF age, sent, window
    <2> QED BY <2>1, <2>3, <2>4 DEF Account
  <1>3. req' \in [Requests -> Request]
        /\ \A q \in Requests : req'[q].pc = req[q].pc /\ req'[q].code = req[q].code
    <2> DEFINE age(q) == IF At(q, "store") THEN Capped(req[q].codeAge, CodeTtl + 1) ELSE 0
    <2>1. \A q \in Requests : req[q] \in Request /\ req[q].codeAge \in 0..(CodeTtl + 1)
      BY <1>1 DEF TypeOK, Request
    <2>2. \A q \in Requests : age(q) \in 0..(CodeTtl + 1)
      <3>1. CodeTtl + 1 \in Nat /\ 0 \in 0..(CodeTtl + 1)
        BY ThrottleAssumption
      <3>2. \A q \in Requests : Capped(req[q].codeAge, CodeTtl + 1) \in 0..(CodeTtl + 1)
        BY <2>1, <3>1, CappedTyped
      <3> QED BY <3>1, <3>2
    <2>3. req' = [q \in Requests |-> [req[q] EXCEPT !.codeAge = age(q)]]
      BY DEF Tick
    <2> HIDE DEF age
    <2>4. \A q \in Requests : /\ [req[q] EXCEPT !.codeAge = age(q)] \in Request
                              /\ [req[q] EXCEPT !.codeAge = age(q)].pc = req[q].pc
                              /\ [req[q] EXCEPT !.codeAge = age(q)].code = req[q].code
      BY <2>1, <2>2 DEF Request
    <2> QED BY <2>3, <2>4
  <1>4. TypeOK'
    BY <1>1, <1>2, <1>3 DEF TypeOK
  <1>5. Missing' = Missing
    BY <1>3 DEF Missing, At
  <1>6. NewInFlight' /\ CodesInFlight'
    BY <1>1, <1>2, <1>3 DEF IInv, Counting, NewInFlight, CodesInFlight, At
  <1>7. AttemptsBounded' /\ GuessesCounted' /\ VerifiedHasNoCode'
    BY <1>1, <1>2, <1>5 DEF IInv, Counting, AttemptsBounded, GuessesCounted, VerifiedHasNoCode
  <1>8. UNCHANGED Once!vars
    BY <1>1, <1>2 DEF Once!vars
  <1> QED BY <1>4, <1>6, <1>7, <1>8 DEF IInv, Counting

\* A crash: what was guessed and not counted yet is lost, once for each request.
LEMMA Crashing ==
    ASSUME IInv, Restart
    PROVE  IInv' /\ [Once!Next]_(Once!vars)
  <1>1. /\ TypeOK /\ UNCHANGED <<acct, guesses>> /\ restarts' = restarts + 1
        /\ req' = [r \in Requests |-> Idle]
    BY DEF Restart, IInv
  <1>2. restarts' \in 0..MaxRestarts
    BY <1>1, ThrottleAssumption DEF Restart, TypeOK
  <1>3. TypeOK'
    BY <1>1, <1>2, IdleTyped DEF TypeOK
  <1>4. Missing' = {} /\ Cardinality(Missing') = 0
    <2>1. Missing' = {}
      BY <1>1, IdleTyped DEF Missing, At
    <2> QED BY <2>1, FS_EmptySet
  <1>5. NewInFlight' /\ CodesInFlight' /\ VerifiedHasNoCode'
    BY <1>1, IdleTyped DEF IInv, Counting, NewInFlight, CodesInFlight, VerifiedHasNoCode, At
  <1>6. AttemptsBounded'
    BY <1>1, <1>4, Fields DEF IInv, Counting, AttemptsBounded
  <1>7. GuessesCounted'
    <2> SUFFICES ASSUME acct.code # NoCode
                 PROVE  guesses[acct.code] <= acct.attempts + 0 + N * (restarts + 1)
      BY <1>1, <1>4 DEF GuessesCounted
    <2>1. guesses[acct.code] <= acct.attempts + Cardinality(Missing) + N * restarts
      BY DEF IInv, Counting, GuessesCounted
    <2>2. N * (restarts + 1) = N * restarts + N /\ Cardinality(Missing) <= N
      BY Fields, Numbers, MissingCount
    <2> QED BY <2>1, <2>2, Fields
  <1>8. Once!Crash
    BY <1>1 DEF Once!Crash
  <1> QED BY <1>3, <1>5, <1>6, <1>7, <1>8 DEF IInv, Counting, Once!Next

------------------------------------------------------------------------------

LEMMA StepImplements ==
    ASSUME IInv, [Next]_vars
    PROVE  IInv' /\ [Once!Next]_(Once!vars)
  <1>1. ASSUME NEW r \in Requests, Arrive(r) PROVE IInv' /\ [Once!Next]_(Once!vars)
    <2>1. CASE StartSend(r, "activation") \/ StartSend(r, "profile")
      BY <2>1, Texting DEF StartSend
    <2> QED BY <1>1, <2>1, Renumbering, Guessing DEF Arrive
  <1>2. ASSUME NEW r \in Requests, Serve(r) PROVE IInv' /\ [Once!Next]_(Once!vars)
    BY <1>2, Sending, Storing, Renumbering, Answering DEF Serve
  <1>3. CASE UNCHANGED vars
    <2>1. TypeOK'
      BY <1>3 DEF vars, IInv, TypeOK
    <2>2. Missing' = Missing
      BY <1>3 DEF vars, Missing, At
    <2>3. Counting'
      BY <1>3, <2>2 DEF vars, IInv, Counting, NewInFlight, CodesInFlight, AttemptsBounded,
                        GuessesCounted, VerifiedHasNoCode, At
    <2> QED BY <1>3, <2>1, <2>3 DEF vars, IInv, Once!vars
  <1> QED BY <1>1, <1>2, <1>3, Ticking, Crashing DEF Next

LEMMA InitImplements == Init => IInv /\ Once!Init
  <1> SUFFICES ASSUME Init PROVE IInv /\ Once!Init
    OBVIOUS
  <1>1. TypeOK
    <2>1. acct \in Account
      BY Numbers, ThrottleAssumption DEF Init, Account
    <2> QED BY <2>1, IdleTyped, Numbers, ThrottleAssumption DEF Init, TypeOK
  <1>2. \A r \in Requests : req[r].pc = "idle" /\ req[r].code = NoCode
    BY IdleTyped DEF Init
  <1>3. Cardinality(Missing) = 0
    <2>1. Missing = {}
      BY <1>2 DEF Missing, At
    <2> QED BY <2>1, FS_EmptySet
  <1>4. Counting
    BY <1>2, <1>3, Numbers, ThrottleAssumption
       DEF Init, Counting, NewInFlight, CodesInFlight, AttemptsBounded, GuessesCounted,
           VerifiedHasNoCode, At
  <1> QED BY <1>1, <1>4 DEF IInv, Init, Once!Init

\* The columns, the requests and the histories keep their types.
THEOREM PhoneCodeTyped == Spec => []TypeOK
  <1>1. IInv /\ [Next]_vars => IInv'
    BY StepImplements
  <1>2. IInv => TypeOK
    BY DEF IInv
  <1> QED BY <1>1, <1>2, InitImplements, PTL DEF Spec

\* Each write to the row issues a new code, counts a wrong guess, or clears
\* the code: whatever races with it, a code allows no more wrong guesses than
\* it should.
THEOREM OneTimeTheorem == Spec => PhoneCodeIsOneTime
  <1>1. IInv /\ [Next]_vars => IInv' /\ [Once!Next]_(Once!vars)
    BY StepImplements
  <1> QED BY <1>1, InitImplements, PTL DEF Spec, PhoneCodeIsOneTime, Once!Spec

\* The limit of attempts is soft by the other requests, and by what crashes
\* left uncounted, and by no more.
THEOREM GuessesTheorem == Spec => []GuessesPerCodeBounded
  <1>1. IInv /\ [Next]_vars => IInv'
    BY StepImplements
  <1>2. IInv => GuessesPerCodeBounded
    <2> SUFFICES ASSUME IInv, acct.code # NoCode
                 PROVE  guesses[acct.code] <= MaxAttempts - 1 + N * (restarts + 1)
      BY DEF GuessesPerCodeBounded, N
    <2>1. guesses[acct.code] <= acct.attempts + Cardinality(Missing) + N * restarts
      BY DEF IInv, Counting, GuessesCounted
    <2>2. acct.attempts + Cardinality(Missing) <= MaxAttempts - 1 + N
      BY DEF IInv, Counting, AttemptsBounded
    <2>3. N * (restarts + 1) = N * restarts + N
      BY Fields, Numbers
    <2> QED BY <2>1, <2>2, <2>3, Fields
  <1> QED BY <1>1, <1>2, InitImplements, PTL DEF Spec

\* What the activation screen calls outstanding is a code that is accepted: a
\* verified account, for which none is, has none.
THEOREM OutstandingTheorem == Spec => []OutstandingIsAccepted
  <1>1. IInv /\ [Next]_vars => IInv'
    BY StepImplements
  <1>2. IInv => OutstandingIsAccepted
    <2>1. IInv => acct.codeAge \in 0..(CodeTtl + 1) /\ (acct.verified => acct.code = NoCode)
                  /\ acct.verified \in BOOLEAN
      BY DEF IInv, TypeOK, Account, Counting, VerifiedHasNoCode
    <2> QED BY <2>1, ThrottleAssumption DEF OutstandingIsAccepted, Outstanding, AcceptsGuess
  <1> QED BY <1>1, <1>2, InitImplements, PTL DEF Spec

\* The two codes side by side run the phone code by its own specification.
LEMMA PhoneRuns == TextedSpec => Spec
  <1>1. TextedInit => Init
    BY DEF TextedInit
  <1>2. [VerifyNumber \/ ResetPassword \/ GiveConsent]_allVars => [Next]_vars
    BY DEF VerifyNumber, ResetPassword, GiveConsent, allVars
  <1> QED BY <1>1, <1>2, PTL DEF TextedSpec, Spec

------------------------------------------------------------------------------
(* The password reset.  Its module is instantiated twice, by TextedCodes and  *)
(* by its proofs: the definitions of the two instances agree.                 *)

ResetProofs == INSTANCE PasswordReset_proofs WITH
    acct <- resetAcct, req <- resetReq, guesses <- resetGuesses, restarts <- resetRestarts

LEMMA SameAssumption == ResetProofs!ResetAssumption
  <1>1. \A S : Reset!IsFiniteSet(S) = ResetProofs!IsFiniteSet(S)
    BY DEF Reset!IsFiniteSet, ResetProofs!IsFiniteSet
  <1> QED BY <1>1, ResetAssumed DEF Reset!ResetAssumption, ResetProofs!ResetAssumption

LEMMA SameCount ==
    /\ Reset!InFlight = ResetProofs!InFlight
    /\ Reset!AttemptsCap = ResetProofs!AttemptsCap /\ Reset!GuessCap = ResetProofs!GuessCap
  <1>1. Reset!Cardinality(Requests) = ResetProofs!Cardinality(Requests)
    BY DEF Reset!Cardinality, ResetProofs!Cardinality
  <1> QED BY <1>1 DEF Reset!InFlight, ResetProofs!InFlight, Reset!AttemptsCap,
         ResetProofs!AttemptsCap, Reset!GuessCap, ResetProofs!GuessCap

LEMMA SameInit == Reset!Init <=> ResetProofs!Init
  BY DEF Reset!Init, ResetProofs!Init, Reset!Idle, ResetProofs!Idle

LEMMA SameType == Reset!TypeOK <=> ResetProofs!TypeOK
  BY SameCount DEF Reset!TypeOK, ResetProofs!TypeOK, Reset!Account, ResetProofs!Account,
     Reset!Request, ResetProofs!Request

LEMMA SameActions ==
    ASSUME NEW r
    PROVE  /\ Reset!RequestPasswordReset(r) <=> ResetProofs!RequestPasswordReset(r)
           /\ Reset!AssertMaySend(r) <=> ResetProofs!AssertMaySend(r)
           /\ Reset!StoreCode(r) <=> ResetProofs!StoreCode(r)
           /\ Reset!TextDelivered(r) <=> ResetProofs!TextDelivered(r)
           /\ Reset!TextFailed(r) <=> ResetProofs!TextFailed(r)
           /\ Reset!GuessRight(r) <=> ResetProofs!GuessRight(r)
           /\ Reset!GuessWrong(r) <=> ResetProofs!GuessWrong(r)
           /\ Reset!CountMiss(r) <=> ResetProofs!CountMiss(r)
           /\ Reset!UpdatePassword(r) <=> ResetProofs!UpdatePassword(r)
           /\ Reset!BurnCode(r) <=> ResetProofs!BurnCode(r)
  <1> USE DEF Reset!At, ResetProofs!At, Reset!Goto, ResetProofs!Goto,
              Reset!End, ResetProofs!End, Reset!Idle, ResetProofs!Idle,
              Reset!Capped, ResetProofs!Capped, Reset!history, ResetProofs!history
  <1>1. Reset!RequestPasswordReset(r) <=> ResetProofs!RequestPasswordReset(r)
    BY DEF Reset!RequestPasswordReset, ResetProofs!RequestPasswordReset
  <1>2. Reset!AssertMaySend(r) <=> ResetProofs!AssertMaySend(r)
    BY DEF Reset!AssertMaySend, ResetProofs!AssertMaySend
  <1>3. Reset!StoreCode(r) <=> ResetProofs!StoreCode(r)
    BY DEF Reset!StoreCode, ResetProofs!StoreCode, Reset!InUse,
       ResetProofs!InUse, Reset!Issued, ResetProofs!Issued
  <1>4. Reset!TextDelivered(r) <=> ResetProofs!TextDelivered(r)
    BY DEF Reset!TextDelivered, ResetProofs!TextDelivered
  <1>5. Reset!TextFailed(r) <=> ResetProofs!TextFailed(r)
    BY DEF Reset!TextFailed, ResetProofs!TextFailed
  <1>6. Reset!GuessRight(r) <=> ResetProofs!GuessRight(r)
    BY DEF Reset!GuessRight, ResetProofs!GuessRight, Reset!AcceptsGuess,
       ResetProofs!AcceptsGuess
  <1>7. Reset!GuessWrong(r) <=> ResetProofs!GuessWrong(r)
    BY SameCount DEF Reset!GuessWrong, ResetProofs!GuessWrong, Reset!AcceptsGuess,
       ResetProofs!AcceptsGuess
  <1>8. Reset!CountMiss(r) <=> ResetProofs!CountMiss(r)
    BY SameCount DEF Reset!CountMiss, ResetProofs!CountMiss
  <1>9. Reset!UpdatePassword(r) <=> ResetProofs!UpdatePassword(r)
    BY SameCount DEF Reset!UpdatePassword, ResetProofs!UpdatePassword, Reset!CodeCleared,
       ResetProofs!CodeCleared
  <1>10. Reset!BurnCode(r) <=> ResetProofs!BurnCode(r)
    BY DEF Reset!BurnCode, ResetProofs!BurnCode
  <1> QED BY <1>1, <1>2, <1>3, <1>4, <1>5, <1>6, <1>7, <1>8, <1>9, <1>10

LEMMA SameNext == Reset!Next <=> ResetProofs!Next
  <1>1. \A r : Reset!Serve(r) <=> ResetProofs!Serve(r)
    BY SameActions DEF Reset!Serve, ResetProofs!Serve
  <1>2. Reset!Tick <=> ResetProofs!Tick
    BY DEF Reset!Tick, ResetProofs!Tick, Reset!At, ResetProofs!At, Reset!Capped,
       ResetProofs!Capped, Reset!history, ResetProofs!history
  <1>3. Reset!Forget <=> ResetProofs!Forget
    BY DEF Reset!Forget, ResetProofs!Forget
  <1>4. Reset!Restart <=> ResetProofs!Restart
    BY DEF Reset!Restart, ResetProofs!Restart, Reset!Idle, ResetProofs!Idle
  <1> QED BY SameActions, <1>1, <1>2, <1>3, <1>4 DEF Reset!Next, ResetProofs!Next

LEMMA ResetRuns == TextedSpec => ResetProofs!Spec
  <1>1. TextedInit => ResetProofs!Init
    BY SameInit DEF TextedInit
  <1>2. [VerifyNumber \/ ResetPassword \/ GiveConsent]_allVars => [ResetProofs!Next]_ResetProofs!vars
    BY SameNext DEF VerifyNumber, ResetPassword, GiveConsent, allVars, resetVars,
       ResetProofs!vars
  <1> QED BY <1>1, <1>2, PTL DEF TextedSpec, ResetProofs!Spec

\* The row, the requests and the histories of a password reset keep their types.
THEOREM ResetTyped == TextedSpec => []ResetTypeOK
<1>1. ResetProofs!Spec => []ResetProofs!TypeOK
  BY ResetProofs!ResetTyped, SameAssumption
<1>2. ResetProofs!TypeOK => ResetTypeOK
  BY SameType DEF ResetTypeOK
<1>3. QED
  BY <1>1, <1>2, ResetRuns, PTL

\* A code changes the password no more often than there were requests in flight
\* that had read it, crashes included.
THEOREM ReplaysTheorem == TextedSpec => []ReplaysOnlyInFlight
<1>1. ResetProofs!Spec => []ResetProofs!ReplaysOnlyInFlight
  BY ResetProofs!ReplaysTheorem, SameAssumption
<1>2. ResetProofs!ReplaysOnlyInFlight => ReplaysOnlyInFlight
  BY SameCount DEF ResetProofs!ReplaysOnlyInFlight, ReplaysOnlyInFlight,
     Reset!ReplaysOnlyInFlight
<1>3. QED
  BY <1>1, <1>2, ResetRuns, PTL

\* The row of a password reset implements a one-time code.
THEOREM ResetIsOneTimeTheorem == TextedSpec => ResetIsOneTime
<1>1. ResetProofs!Spec => ResetProofs!ResetCodeIsOneTime
  BY ResetProofs!ResetCodeTheorem, SameAssumption
<1>2. ResetProofs!Once!Init => Reset!Once!Init
  BY DEF ResetProofs!Once!Init, Reset!Once!Init
<1>3. [ResetProofs!Once!Next]_ResetProofs!Once!vars => [Reset!Once!Next]_Reset!Once!vars
  BY SameCount DEF ResetProofs!Once!Next, Reset!Once!Next, ResetProofs!Once!vars,
     Reset!Once!vars,
     ResetProofs!Once!Issue, Reset!Once!Issue, ResetProofs!Once!Miss, Reset!Once!Miss,
     ResetProofs!Once!Clear, Reset!Once!Clear, ResetProofs!Once!Crash, Reset!Once!Crash,
     ResetProofs!Once!Allowed, Reset!Once!Allowed
<1>4. QED
  BY <1>1, <1>2, <1>3, ResetRuns, PTL
     DEF ResetIsOneTime, Reset!ResetCodeIsOneTime, ResetProofs!ResetCodeIsOneTime,
         ResetProofs!Once!Spec, Reset!Once!Spec

------------------------------------------------------------------------------
(* Consent, likewise.                                                         *)

ConsentProofs == INSTANCE SmsConsent_proofs WITH
    acct <- consentAcct, req <- consentReq, restarts <- consentRestarts,
    Requests <- ConsentRequests

LEMMA SameConsentAssumption == ConsentProofs!ConsentAssumption
  BY ConsentAssumed DEF Consent!ConsentAssumption, ConsentProofs!ConsentAssumption

LEMMA SameScripts ==
    /\ \A path : Consent!Script(path) = ConsentProofs!Script(path)
    /\ \A ticked : Consent!ProfileScript(ticked) = ConsentProofs!ProfileScript(ticked)
  BY DEF Consent!Script, ConsentProofs!Script, Consent!ProfileScript,
         ConsentProofs!ProfileScript, Consent!Gate, ConsentProofs!Gate, Consent!Send,
         ConsentProofs!Send

LEMMA SameMoves ==
    ASSUME NEW r
    PROVE  /\ Consent!Serve(r) <=> ConsentProofs!Serve(r)
           /\ Consent!Arrive(r) <=> ConsentProofs!Arrive(r)
  <1> USE DEF Consent!At, ConsentProofs!At,
              Consent!End, ConsentProofs!End,
              Consent!Continue, ConsentProofs!Continue,
              Consent!Begin, ConsentProofs!Begin,
              Consent!Holders, ConsentProofs!Holders,
              Consent!ledger, ConsentProofs!ledger,
              Consent!log, ConsentProofs!log,
              Consent!Idle, ConsentProofs!Idle
  <1>1. Consent!RecordConsent(r) <=> ConsentProofs!RecordConsent(r)
    BY DEF Consent!RecordConsent, ConsentProofs!RecordConsent, Consent!Grant,
           ConsentProofs!Grant
  <1>2. Consent!CaptureConsent(r) <=> ConsentProofs!CaptureConsent(r)
    BY DEF Consent!CaptureConsent, ConsentProofs!CaptureConsent, Consent!Grant,
           ConsentProofs!Grant
  <1>3. Consent!FindConsentHeld(r) <=> ConsentProofs!FindConsentHeld(r)
    BY DEF Consent!FindConsentHeld, ConsentProofs!FindConsentHeld, Consent!Find,
           ConsentProofs!Find, Consent!ConsentHeld, ConsentProofs!ConsentHeld
  <1>4. Consent!FindGrantOnFile(r) <=> ConsentProofs!FindGrantOnFile(r)
    BY DEF Consent!FindGrantOnFile, ConsentProofs!FindGrantOnFile, Consent!Find,
           ConsentProofs!Find
  <1>5. Consent!FindGrantIsLatest(r) <=> ConsentProofs!FindGrantIsLatest(r)
    BY DEF Consent!FindGrantIsLatest, ConsentProofs!FindGrantIsLatest
  <1>6. Consent!Withdraw(r) <=> ConsentProofs!Withdraw(r)
    BY DEF Consent!Withdraw, ConsentProofs!Withdraw, Consent!OptOut, ConsentProofs!OptOut,
           Consent!PastFlags, ConsentProofs!PastFlags
  <1>7. Consent!FindHolders(r) <=> ConsentProofs!FindHolders(r)
    BY DEF Consent!FindHolders, ConsentProofs!FindHolders
  <1>8. Consent!Resubscribe(r) <=> ConsentProofs!Resubscribe(r)
    BY DEF Consent!Resubscribe, ConsentProofs!Resubscribe, Consent!Resumed,
           ConsentProofs!Resumed
  <1>9. Consent!IsNumberStopped(r) <=> ConsentProofs!IsNumberStopped(r)
    BY DEF Consent!IsNumberStopped, ConsentProofs!IsNumberStopped, Consent!Stopped,
           ConsentProofs!Stopped
  <1>10. Consent!StillUnproved(r) <=> ConsentProofs!StillUnproved(r)
    BY DEF Consent!StillUnproved, ConsentProofs!StillUnproved
  <1>11. Consent!AssertFlags(r) <=> ConsentProofs!AssertFlags(r)
    BY DEF Consent!AssertFlags, ConsentProofs!AssertFlags
  <1>12. Consent!AssertLatestGrant(r) <=> ConsentProofs!AssertLatestGrant(r)
    BY DEF Consent!AssertLatestGrant, ConsentProofs!AssertLatestGrant, Consent!GrantMatches,
           ConsentProofs!GrantMatches
  <1>13. Consent!Text(r) <=> ConsentProofs!Text(r)
    BY DEF Consent!Text, ConsentProofs!Text
  <1>14. Consent!StorePhone(r) <=> ConsentProofs!StorePhone(r)
    BY DEF Consent!StorePhone, ConsentProofs!StorePhone
  <1>15. Consent!Serve(r) <=> ConsentProofs!Serve(r)
    BY <1>1, <1>2, <1>3, <1>4, <1>5, <1>6, <1>7, <1>8, <1>9, <1>10, <1>11, <1>12,
       <1>13, <1>14 DEF Consent!Serve, ConsentProofs!Serve
  <1>16. ASSUME NEW u, NEW n
         PROVE  Consent!Signup(r, u, n) <=> ConsentProofs!Signup(r, u, n)
    BY SameScripts DEF Consent!Signup, ConsentProofs!Signup
  <1>17. ASSUME NEW u, NEW n
         PROVE  Consent!SetActivationPhone(r, u, n) <=> ConsentProofs!SetActivationPhone(r, u, n)
    BY SameScripts DEF Consent!SetActivationPhone, ConsentProofs!SetActivationPhone
  <1>18. ASSUME NEW u, NEW n
         PROVE  Consent!SessionSend(r, u, n) <=> ConsentProofs!SessionSend(r, u, n)
    BY SameScripts DEF Consent!SessionSend, ConsentProofs!SessionSend
  <1>19. ASSUME NEW u, NEW n
         PROVE  Consent!ProfileSend(r, u, n) <=> ConsentProofs!ProfileSend(r, u, n)
    BY SameScripts DEF Consent!ProfileSend, ConsentProofs!ProfileSend
  <1>20. ASSUME NEW u
         PROVE  Consent!RequestActivationCode(r, u) <=> ConsentProofs!RequestActivationCode(r, u)
    BY SameScripts DEF Consent!RequestActivationCode, ConsentProofs!RequestActivationCode
  <1>21. ASSUME NEW u
         PROVE  Consent!GrantSmsConsent(r, u) <=> ConsentProofs!GrantSmsConsent(r, u)
    BY SameScripts DEF Consent!GrantSmsConsent, ConsentProofs!GrantSmsConsent
  <1>22. ASSUME NEW u
         PROVE  Consent!WithdrawSmsConsent(r, u) <=> ConsentProofs!WithdrawSmsConsent(r, u)
    BY SameScripts DEF Consent!WithdrawSmsConsent, ConsentProofs!WithdrawSmsConsent
  <1>23. ASSUME NEW u
         PROVE  Consent!RequestPasswordReset(r, u) <=> ConsentProofs!RequestPasswordReset(r, u)
    BY SameScripts DEF Consent!RequestPasswordReset, ConsentProofs!RequestPasswordReset
  <1>24. ASSUME NEW n
         PROVE  Consent!HandleStart(r, n) <=> ConsentProofs!HandleStart(r, n)
    BY SameScripts DEF Consent!HandleStart, ConsentProofs!HandleStart
  <1> QED BY <1>15, <1>16, <1>17, <1>18, <1>19, <1>20, <1>21, <1>22, <1>23, <1>24
          DEF Consent!Arrive, ConsentProofs!Arrive

LEMMA SameConsentNext == Consent!Next <=> ConsentProofs!Next
  <1>1. ASSUME NEW n PROVE Consent!HandleStop(n) <=> ConsentProofs!HandleStop(n)
    BY DEF Consent!HandleStop, ConsentProofs!HandleStop, Consent!OptOut,
           ConsentProofs!OptOut, Consent!PastFlags, ConsentProofs!PastFlags, Consent!At,
           ConsentProofs!At, Consent!Holders, ConsentProofs!Holders
  <1>2. ASSUME NEW u PROVE Consent!VerifyPhone(u) <=> ConsentProofs!VerifyPhone(u)
    BY DEF Consent!VerifyPhone, ConsentProofs!VerifyPhone, Consent!log, ConsentProofs!log,
           Consent!ledger, ConsentProofs!ledger
  <1>3. ASSUME NEW u, NEW n PROVE Consent!ChangePhone(u, n) <=> ConsentProofs!ChangePhone(u, n)
    BY DEF Consent!ChangePhone, ConsentProofs!ChangePhone, Consent!log, ConsentProofs!log,
           Consent!ledger, ConsentProofs!ledger
  <1>4. Consent!Restart <=> ConsentProofs!Restart
    BY DEF Consent!Restart, ConsentProofs!Restart, Consent!Idle, ConsentProofs!Idle,
           Consent!ledger, ConsentProofs!ledger
  <1>5. Consent!Operate <=> ConsentProofs!Operate
    BY SameMoves, <1>1, <1>2, <1>3 DEF Consent!Operate, ConsentProofs!Operate
  <1> QED BY <1>4, <1>5 DEF Consent!Next, ConsentProofs!Next

LEMMA ConsentRuns == TextedSpec => ConsentProofs!Spec
  <1>1. TextedInit => ConsentProofs!Init
    BY DEF TextedInit, Consent!Init, ConsentProofs!Init, Consent!Idle, ConsentProofs!Idle
  <1>2. [VerifyNumber \/ ResetPassword \/ GiveConsent]_allVars
            => [ConsentProofs!Next]_ConsentProofs!vars
    BY SameConsentNext DEF VerifyNumber, ResetPassword, GiveConsent, allVars, consentVars,
       ConsentProofs!vars
  <1> QED BY <1>1, <1>2, PTL DEF TextedSpec, ConsentProofs!Spec

\* The accounts, the log and the requests of consent keep their types.
THEOREM ConsentTypedTheorem == TextedSpec => []ConsentTypeOK
<1>1. ConsentProofs!Spec => []ConsentProofs!ConsentTypeOK
  BY ConsentProofs!ConsentTyped, SameConsentAssumption
<1>2. ConsentProofs!ConsentTypeOK => ConsentTypeOK
  BY DEF ConsentTypeOK, Consent!ConsentTypeOK, ConsentProofs!ConsentTypeOK, Consent!Account,
         ConsentProofs!Account, Consent!Events, ConsentProofs!Events, Consent!Request,
         ConsentProofs!Request, Consent!Statements, ConsentProofs!Statements
<1>3. QED
  BY <1>1, <1>2, ConsentRuns, PTL

\* On each path that texts a code, the session path included: the account
\* recorded consent for that number, and no STOP and no withdrawal has ended it
\* since, unless it came after the request had read the flags.
THEOREM BackedTheorem == TextedSpec => []TextsAreBackedByGrant
<1>1. ConsentProofs!Spec => []ConsentProofs!TextsAreBackedByGrant
  BY ConsentProofs!TextsTheorem, SameConsentAssumption
<1>2. ConsentProofs!TextsAreBackedByGrant => TextsAreBackedByGrant
  BY DEF TextsAreBackedByGrant, Consent!TextsAreBackedByGrant,
         ConsentProofs!TextsAreBackedByGrant, Consent!At, ConsentProofs!At
<1>3. QED
  BY <1>1, <1>2, ConsentRuns, PTL
================================================================================
