-------------------------- MODULE SmsConsent_proofs --------------------------
(* Theorems about SmsConsent, for any number of users, numbers and concurrent *)
(* requests: a text goes out only on a grant for its number that no STOP or   *)
(* withdrawal had ended when its request read the flags.                      *)
EXTENDS SmsConsent, TLAPS

\* The gate keeps its order: the flags, the latest grant, the text.
After(p, s) == (s = "text" => p = "latestGrant") /\ (s = "latestGrant" => p = "flags")
Opens(s)    == s \notin {"text", "latestGrant"}

Gated(script) ==
    /\ script \in Seq(Statements)
    /\ \A i \in 2..Len(script) : After(script[i - 1], script[i])

\* Only the replies of a handset name no user, and those do not text.
ForUser(c) == c.user \in Users \/ \A i \in 1..Len(c.todo) : c.todo[i] \in {"holders", "resubscribe"}

InFlight(c) == c.todo # <<>> => c.phone \in Phones /\ Gated(c.todo) /\ ForUser(c)

Scripted == \A r \in Requests : InFlight(req[r])

\* The number of a latest grant was granted.
GrantsAreLogged == \A u \in Users : grantLast[u] # NoPhone => <<u, grantLast[u]>> \in granted

\* Whoever stopped the number of the latest grant has not consented since.
HaltedFlags ==
    \A u \in Users, n \in Phones :
        <<u, n>> \in halted /\ grantLast[u] = n => ~acct[u].smsConsent

\* What a request past the flags may rely on.
Consent(r) == <<req[r].user, req[r].phone>>

Backed(r) ==
    /\ At(r, "latestGrant") =>
          (Consent(r) \in halted /\ grantLast[req[r].user] = req[r].phone => r \in overtaken)
    /\ At(r, "text") => Consent(r) \in granted /\ (Consent(r) \in halted => r \in overtaken)

IInv ==
    /\ ConsentAssumption /\ ConsentTypeOK /\ Scripted /\ GrantsAreLogged /\ HaltedFlags
    /\ \A r \in Requests : Backed(r)

------------------------------------------------------------------------------
(* Scripts *)

LEMMA GatedConcat ==
    ASSUME NEW s, NEW t, Gated(s), Gated(t), t # <<>> => Opens(t[1])
    PROVE  Gated(s \o t)
  <1>1. s \in Seq(Statements) /\ t \in Seq(Statements)
    BY DEF Gated
  <1>2. s \o t \in Seq(Statements) /\ Len(s \o t) = Len(s) + Len(t)
    BY <1>1
  <1>3. ASSUME NEW i \in 2..Len(s \o t)
        PROVE  After((s \o t)[i - 1], (s \o t)[i])
    <2>1. CASE i <= Len(s)
      <3>1. (s \o t)[i] = s[i] /\ (s \o t)[i - 1] = s[i - 1] /\ i \in 2..Len(s)
        BY <1>1, <1>2, <2>1
      <3> QED BY <3>1 DEF Gated
    <2>2. CASE i > Len(s) + 1
      <3>1. /\ (s \o t)[i] = t[i - Len(s)] /\ (s \o t)[i - 1] = t[i - Len(s) - 1]
            /\ i - Len(s) \in 2..Len(t)
        BY <1>1, <1>2, <2>2
      <3> QED BY <3>1 DEF Gated
    <2>3. CASE i = Len(s) + 1
      <3>1. (s \o t)[i] = t[1] /\ t # <<>>
        BY <1>1, <1>2, <2>3
      <3> QED BY <3>1 DEF Opens, After
    <2> QED BY <1>1, <2>1, <2>2, <2>3
  <1> QED BY <1>2, <1>3 DEF Gated

\* A request that arrives has not read the flags.
Starts(script) == Gated(script) /\ script # <<>> /\ Opens(script[1])

LEMMA StartsConcat ==
    ASSUME NEW s, NEW t, Starts(s), Gated(t), t # <<>> => Opens(t[1])
    PROVE  Starts(s \o t)
  <1>1. Gated(s \o t) /\ s \in Seq(Statements) /\ t \in Seq(Statements)
    BY GatedConcat DEF Starts, Gated
  <1>2. s \o t # <<>> /\ (s \o t)[1] = s[1]
    BY <1>1 DEF Starts
  <1> QED BY <1>1, <1>2 DEF Starts

LEMMA ScriptsStart ==
    /\ \A path \in Paths : Starts(Script(path))
    /\ \A ticked \in BOOLEAN : Starts(ProfileScript(ticked))
  <1> USE DEF Starts, Gated, Statements, After, Opens
  <1>1. Starts(Gate) /\ Starts(<<"store">>) /\ Gated(<<>>)
    BY DEF Gate
  <1>2. Starts(<<"recordConsent">>) /\ Starts(<<"unproved">>) /\ Starts(<<"optOut">>)
    OBVIOUS
  <1>3. Starts(<<"isNumberStopped">>) /\ Starts(<<"isNumberStopped", "recordConsent">>)
    OBVIOUS
  <1>4. /\ Starts(<<"isNumberStopped", "setPhone", "recordConsent">>)
        /\ Starts(<<"holders", "resubscribe">>)
    OBVIOUS
  <1>5. Starts(<<"consentHeld", "grantOnFile", "grantIsLatest">>)
    OBVIOUS
  <1> HIDE DEF Gated, Statements, After, Opens
  <1>6. ASSUME NEW s, Starts(s)
        PROVE  Starts(s \o Gate) /\ Starts((s \o Gate) \o <<"store">>)
    <2>1. Starts(s \o Gate)
      BY <1>1, <1>6, StartsConcat
    <2> QED BY <1>1, <2>1, StartsConcat
  <1>7. Starts(Send)
    BY <1>2, <1>6 DEF Send
  <1>8. ASSUME NEW s, Starts(s) PROVE Starts(s \o Send)
    BY <1>7, <1>8, StartsConcat
  <1> HIDE DEF Starts
  <1>9. /\ Starts(Script("signup")) /\ Starts(Script("setActivationPhone"))
        /\ Starts(Script("requestActivationCode")) /\ Starts(Script("sessionSend"))
    BY <1>2, <1>4, <1>5, <1>7, <1>8 DEF Script
  <1>10. Starts(Script("grantSmsConsent")) /\ Starts(Script("withdraw")) /\ Starts(Script("start"))
    BY <1>2, <1>3, <1>4 DEF Script
  <1>11. Starts(Script("reset"))
    BY <1>1 DEF Script
  <1>12. ASSUME NEW ticked \in BOOLEAN PROVE Starts(ProfileScript(ticked))
    <2>1. Starts(<<"isNumberStopped">> \o <<"recordConsent">>)
      BY <1>2, <1>3, StartsConcat DEF Starts
    <2>2. Starts(<<"isNumberStopped">> \o <<>>)
      BY <1>1, <1>3, StartsConcat
    <2> QED BY <1>6, <2>1, <2>2 DEF ProfileScript
  <1> QED BY <1>9, <1>10, <1>11, <1>12 DEF Paths

------------------------------------------------------------------------------
(* How a step moves a request *)

\* Only request r moves; what it does next is scripted.
Moves(r) ==
    /\ req' \in [Requests -> Request]
    /\ \A q \in Requests \ {r} : req'[q] = req[q]
    /\ InFlight(req'[r])

\* The number and the user of a request stay; only its reads are noted.
Same(new, r) ==
    new \in Request /\ new.todo = req[r].todo /\ new.user = req[r].user /\ new.phone = req[r].phone

LEMMA IdleScripted == Idle \in Request /\ InFlight(Idle) /\ Idle.todo = <<>>
  BY DEF Idle, Request, InFlight

\* A request at a statement is for a user and a number.
LEMMA Serving ==
    ASSUME ConsentTypeOK, Scripted, NEW r \in Requests, NEW s, At(r, s)
    PROVE  /\ req[r] \in Request /\ req[r].todo # <<>>
           /\ req[r].todo \in Seq(Statements) /\ req[r].todo[1] = s
           /\ InFlight(req[r]) /\ req[r].phone \in Phones
           /\ Same(req[r], r)
           /\ s \notin {"holders", "resubscribe"} => req[r].user \in Users
  <1>1. req[r] \in Request /\ req[r].todo # <<>> /\ req[r].todo \in Seq(Statements)
    BY DEF ConsentTypeOK, At, Request
  <1>2. req[r].todo[1] = s /\ 1 \in 1..Len(req[r].todo)
    BY <1>1 DEF At
  <1>3. InFlight(req[r])
    BY DEF Scripted
  <1> QED BY <1>1, <1>2, <1>3 DEF InFlight, ForUser, Same

LEMMA Ends ==
    ASSUME ConsentTypeOK, NEW r \in Requests, End(r)
    PROVE  Moves(r) /\ req'[r].todo = <<>>
  BY IdleScripted DEF ConsentTypeOK, End, Moves

\* The statement done, the rest of the script keeps its order.
LEMMA Rest ==
    ASSUME NEW c \in Request, InFlight(c), c.todo # <<>>, NEW first \in Seq(Statements),
           first = <<>> \/ (first = <<"captureConsent">> /\ c.todo[1] = "grantIsLatest"),
           NEW d \in Request, d.todo = first \o Tail(c.todo), d.user = c.user, d.phone = c.phone
    PROVE  InFlight(d)
  <1> DEFINE rest == first \o Tail(c.todo)
  <1>1. c.todo \in Seq(Statements) /\ Gated(c.todo) /\ c.phone \in Phones /\ ForUser(c)
    BY DEF Request, InFlight
  <1>2. d.todo = rest /\ d.phone = c.phone /\ d.user = c.user
    OBVIOUS
  <1>3. Gated(Tail(c.todo))
    <2>1. Tail(c.todo) \in Seq(Statements) /\ Len(Tail(c.todo)) = Len(c.todo) - 1
      BY <1>1
    <2>2. \A i \in 1..Len(Tail(c.todo)) : Tail(c.todo)[i] = c.todo[i + 1]
      BY <1>1
    <2>3. ASSUME NEW i \in 2..Len(Tail(c.todo))
          PROVE  After(Tail(c.todo)[i - 1], Tail(c.todo)[i])
      <3>1. i + 1 \in 2..Len(c.todo) /\ (i + 1) - 1 = i /\ i - 1 \in 1..Len(Tail(c.todo))
        BY <1>1, <2>1
      <3>2. After(c.todo[i], c.todo[i + 1])
        BY <1>1, <3>1 DEF Gated
      <3>3. Tail(c.todo)[i - 1] = c.todo[i] /\ Tail(c.todo)[i] = c.todo[i + 1]
        BY <2>1, <2>2, <3>1
      <3> QED BY <3>2, <3>3
    <2> QED BY <2>1, <2>3 DEF Gated
  <1>4. CASE first = <<>>
    <2>1. rest = Tail(c.todo)
      BY <1>1, <1>4
    <2>2. \A i \in 1..Len(rest) : i + 1 \in 1..Len(c.todo) /\ rest[i] = c.todo[i + 1]
      BY <1>1, <2>1
    <2>3. ForUser(d)
      BY <1>1, <1>2, <2>2 DEF ForUser
    <2> QED BY <1>1, <1>2, <1>3, <2>1, <2>3 DEF InFlight
  <1>5. CASE first = <<"captureConsent">> /\ c.todo[1] = "grantIsLatest"
    <2>1. Gated(first)
      BY <1>5 DEF Gated, Statements
    <2>2. Tail(c.todo) # <<>> => Opens(Tail(c.todo)[1])
      <3>1. SUFFICES ASSUME Tail(c.todo) # <<>> PROVE Opens(c.todo[2])
        BY <1>1
      <3>2. 2 \in 2..Len(c.todo)
        BY <1>1, <3>1
      <3> QED BY <1>1, <1>5, <3>2 DEF Gated, After, Opens
    <2>3. Gated(rest)
      BY <1>3, <2>1, <2>2, GatedConcat
    <2>4. c.user \in Users
      <3>1. 1 \in 1..Len(c.todo)
        BY <1>1
      <3> QED BY <1>1, <1>5, <3>1 DEF ForUser
    <2> QED BY <1>1, <1>2, <2>3, <2>4 DEF InFlight, ForUser
  <1> QED BY <1>4, <1>5

LEMMA Continues ==
    ASSUME ConsentTypeOK, Scripted, NEW r \in Requests, NEW s, At(r, s),
           NEW new, Same(new, r), Continue(r, new)
    PROVE  /\ Moves(r)
           /\ At(r, "latestGrant")' => s = "flags"
           /\ At(r, "text")' => s = "latestGrant"
           /\ Consent(r)' = Consent(r) \/ req'[r].todo = <<>>
  <1>1. CASE End(r)
    BY <1>1, Ends DEF At
  <1>2. CASE ~End(r)
    <2> DEFINE c == req[r]
               d == [new EXCEPT !.todo = Tail(new.todo)]
    <2>1. /\ c \in Request /\ c.todo # <<>> /\ InFlight(c)
          /\ c.todo \in Seq(Statements) /\ c.todo[1] = s
      BY Serving
    <2>2. /\ new \in Request /\ new.todo = c.todo
          /\ new.user = c.user /\ new.phone = c.phone
      BY DEF Same
    <2>3. req' = [req EXCEPT ![r] = d]
      BY <1>2 DEF Continue
    <2> HIDE DEF c
    <2>4. Tail(c.todo) \in Seq(Statements) /\ Tail(c.todo) = <<>> \o Tail(c.todo)
      BY <2>1
    <2>5. d \in Request /\ d.todo = Tail(c.todo) /\ d.user = c.user /\ d.phone = c.phone
      BY <2>2, <2>4 DEF Request
    <2> HIDE DEF d
    <2>6. <<>> \in Seq(Statements)
      OBVIOUS
    <2>7. InFlight(d)
      BY <2>1, <2>4, <2>5, <2>6, Rest
    <2>8. Moves(r) /\ req'[r] = d
      BY <2>3, <2>5, <2>7 DEF Moves, ConsentTypeOK
    <2>9. d.todo # <<>> => After(s, d.todo[1])
      <3>1. d.todo # <<>> => 2 \in 2..Len(c.todo) /\ c.todo[2] = d.todo[1]
        BY <2>1, <2>5
      <3> QED BY <2>1, <3>1 DEF Gated, InFlight
    <2>10. /\ At(r, "latestGrant")' => d.todo # <<>> /\ d.todo[1] = "latestGrant"
           /\ At(r, "text")' => d.todo # <<>> /\ d.todo[1] = "text"
      <3>1. d.todo \in Seq(Statements) /\ req'[r] = d
        BY <2>4, <2>5, <2>8
      <3> QED BY <3>1 DEF At
    <2>11. Consent(r)' = Consent(r)
      BY <2>5, <2>8 DEF Consent, c
    <2> QED BY <2>8, <2>9, <2>10, <2>11 DEF After
  <1> QED BY <1>1, <1>2

LEMMA Begins ==
    ASSUME ConsentTypeOK, NEW r \in Requests, NEW script, Starts(script),
           NEW u \in Users \cup {NoPhone}, NEW n \in Phones, Begin(r, script, u, n),
           u \in Users \/ script = <<"holders", "resubscribe">>
    PROVE  Moves(r) /\ ~PastFlags(r)'
  <1> DEFINE c == [todo |-> script, user |-> u, phone |-> n, held |-> TRUE]
  <1>1. script \in Seq(Statements)
    BY DEF Starts, Gated
  <1>2. c \in Request
    BY <1>1 DEF Request
  <1>3. ForUser(c)
    <2>1. CASE u \in Users
      BY <2>1 DEF ForUser
    <2>2. CASE script = <<"holders", "resubscribe">>
      BY <2>2 DEF ForUser
    <2> QED BY <2>1, <2>2
  <1>4. InFlight(c)
    BY <1>3 DEF InFlight, Starts
  <1>5. c.todo = script
    OBVIOUS
  <1> HIDE DEF c
  <1>6. Moves(r) /\ req'[r] = c
    BY <1>2, <1>4 DEF Moves, ConsentTypeOK, Begin, c
  <1>7. /\ req'[r].todo[1] \notin {"text", "latestGrant"}
        /\ req'[r].todo \in Seq(Statements) /\ req'[r].todo # <<>>
    BY <1>1, <1>5, <1>6 DEF Starts, Opens
  <1> QED BY <1>6, <1>7 DEF At, PastFlags

------------------------------------------------------------------------------
(* What a step does to the rows and the log *)

\* The rows and the log keep their types and what they say, and no grant is
\* forgotten.
Logs ==
    /\ acct' \in [Users -> Account]
    /\ numberLast' \in [Phones -> Events]
    /\ grantLast' \in [Users -> Phones \cup {NoPhone}]
    /\ granted' \subseteq Users \X Phones /\ granted \subseteq granted'
    /\ halted' \subseteq Users \X Phones /\ overtaken' \subseteq Requests
    /\ GrantsAreLogged' /\ HaltedFlags'

\* What request q has read still holds, or a STOP has overtaken it.
Bears(q) ==
    /\ q \in overtaken => q \in overtaken'
    /\ Consent(q) \in halted' => Consent(q) \in halted \/ ~PastFlags(q) \/ q \in overtaken'
    /\ \A u \in Users : grantLast'[u] = grantLast[u] \/ <<u, grantLast'[u]>> \notin halted'

FlagsKept ==
    /\ acct' \in [Users -> Account]
    /\ \A u \in Users : acct'[u].smsConsent = acct[u].smsConsent

LEMMA LedgerKept ==
    ASSUME IInv, UNCHANGED <<ledger, halted>>, overtaken' \subseteq Requests, FlagsKept
    PROVE  Logs /\ \A q \in Requests : (q \in overtaken => q \in overtaken') => Bears(q)
  <1>1. numberLast' = numberLast /\ grantLast' = grantLast /\ granted' = granted /\ halted' = halted
    BY DEF ledger
  <1>2. Logs
    BY <1>1 DEF IInv, ConsentTypeOK, Logs, GrantsAreLogged, HaltedFlags, FlagsKept
  <1>3. \A q \in Requests : (q \in overtaken => q \in overtaken') => Bears(q)
    BY <1>1 DEF Bears, Consent
  <1> QED BY <1>2, <1>3

LEMMA LogKept ==
    ASSUME IInv, UNCHANGED log, FlagsKept
    PROVE  Logs /\ \A q \in Requests : Bears(q)
  <1>1. UNCHANGED <<ledger, halted>> /\ overtaken' = overtaken /\ overtaken' \subseteq Requests
    BY DEF log, IInv, ConsentTypeOK
  <1> QED BY <1>1, LedgerKept

LEMMA GrantLogs ==
    ASSUME IInv, NEW u \in Users, NEW n \in Phones, Grant(u, n),
           acct' \in [Users -> Account],
           \A v \in Users \ {u} : acct'[v] = acct[v]
    PROVE  Logs /\ \A q \in Requests : Bears(q)
  <1>1. numberLast' \in [Phones -> Events]
    BY DEF IInv, ConsentTypeOK, Grant, Events
  <1>2. grantLast' \in [Users -> Phones \cup {NoPhone}]
    BY DEF IInv, ConsentTypeOK, Grant
  <1>3. granted' \subseteq Users \X Phones /\ granted \subseteq granted'
    BY DEF IInv, ConsentTypeOK, Grant
  <1>4. GrantsAreLogged'
    BY DEF IInv, ConsentTypeOK, Grant, GrantsAreLogged
  <1>5. halted' \subseteq halted /\ overtaken' = overtaken /\ <<u, n>> \notin halted'
    BY DEF Grant
  <1>6. grantLast'[u] = n /\ \A v \in Users \ {u} : grantLast'[v] = grantLast[v]
    BY DEF IInv, ConsentTypeOK, Grant
  <1>7. HaltedFlags'
    <2>1. SUFFICES ASSUME NEW v \in Users, NEW m \in Phones, <<v, m>> \in halted', grantLast'[v] = m
                   PROVE  ~acct'[v].smsConsent
      BY DEF HaltedFlags
    <2>2. v # u
      BY <1>5, <1>6, <2>1
    <2> QED BY <1>5, <1>6, <2>1, <2>2 DEF IInv, HaltedFlags
  <1>8. Logs
    BY <1>1, <1>2, <1>3, <1>4, <1>5, <1>7 DEF Logs, IInv, ConsentTypeOK
  <1>9. \A q \in Requests : Bears(q)
    BY <1>5, <1>6 DEF Bears
  <1> QED BY <1>8, <1>9

LEMMA OptOutLogs ==
    ASSUME IInv, NEW n \in Phones, OptOut(n)
    PROVE  Logs /\ \A q \in Requests : Bears(q)
  <1>1. \A u \in Users : [acct[u] EXCEPT !.smsConsent = FALSE, !.smsOptedOut = TRUE] \in Account
    BY DEF IInv, ConsentTypeOK, Account
  <1>2. acct' \in [Users -> Account]
    BY <1>1 DEF OptOut, IInv, ConsentTypeOK
  <1>3. \A u \in Users : acct'[u].smsConsent = FALSE \/ (u \notin Holders(n) /\ acct'[u] = acct[u])
    <2>1. ASSUME NEW u \in Users, u \in Holders(n) PROVE acct'[u].smsConsent = FALSE
      <3>1. acct'[u] = [acct[u] EXCEPT !.smsConsent = FALSE, !.smsOptedOut = TRUE]
        BY <2>1 DEF OptOut
      <3>2. acct[u] \in Account
        BY DEF IInv, ConsentTypeOK
      <3> QED BY <3>1, <3>2 DEF Account
    <2>2. ASSUME NEW u \in Users, u \notin Holders(n) PROVE acct'[u] = acct[u]
      BY <2>2 DEF OptOut
    <2> QED BY <2>1, <2>2
  <1>4. /\ halted' = halted \cup (Holders(n) \X {n}) /\ Holders(n) \subseteq Users
        /\ UNCHANGED <<grantLast, granted>>
    BY DEF OptOut, Holders
  <1>5. /\ overtaken \subseteq overtaken' /\ overtaken' \subseteq Requests
        /\ \A q \in Requests : PastFlags(q) /\ req[q].phone = n /\ req[q].user \in Holders(n)
                                 => q \in overtaken'
    BY DEF OptOut, IInv, ConsentTypeOK
  <1>6. HaltedFlags'
    <2>1. SUFFICES ASSUME NEW v \in Users, NEW m \in Phones, <<v, m>> \in halted', grantLast[v] = m
                   PROVE  ~acct'[v].smsConsent
      BY <1>4 DEF HaltedFlags
    <2>2. CASE <<v, m>> \in halted
      BY <1>3, <2>1, <2>2 DEF IInv, HaltedFlags
    <2>3. CASE v \in Holders(n)
      BY <1>3, <2>3
    <2> QED BY <1>4, <2>1, <2>2, <2>3
  <1>7. Logs
    <2>1. numberLast' \in [Phones -> Events]
      BY DEF OptOut, IInv, ConsentTypeOK, Events
    <2>2. halted' \subseteq Users \X Phones
      BY <1>4 DEF IInv, ConsentTypeOK
    <2>3. GrantsAreLogged'
      BY <1>4 DEF IInv, GrantsAreLogged
    <2> QED BY <1>2, <1>4, <1>5, <1>6, <2>1, <2>2, <2>3 DEF Logs, IInv, ConsentTypeOK
  <1>8. \A q \in Requests : Bears(q)
    <2>1. ASSUME NEW q \in Requests, Consent(q) \in halted'
          PROVE  Consent(q) \in halted \/ ~PastFlags(q) \/ q \in overtaken'
      <3>1. Consent(q) \in halted \/ (req[q].user \in Holders(n) /\ req[q].phone = n)
        BY <1>4, <2>1 DEF Consent
      <3> QED BY <1>5, <3>1
    <2> QED BY <1>4, <1>5, <2>1 DEF Bears
  <1> QED BY <1>7, <1>8

LEMMA StaysBacked ==
    ASSUME IInv, Logs, NEW q \in Requests, Bears(q), req'[q] = req[q]
    PROVE  Backed(q)'
  <1>1. \A s : At(q, s)' => At(q, s)
    BY DEF At
  <1>2. Consent(q)' = Consent(q)
    BY DEF Consent
  <1>3. ASSUME At(q, "latestGrant"), Consent(q) \in halted', grantLast'[req[q].user] = req[q].phone
        PROVE  q \in overtaken'
    <2>1. req[q].user \in Users
      BY <1>3, Serving DEF IInv
    <2>2. grantLast'[req[q].user] = grantLast[req[q].user]
      BY <1>3, <2>1 DEF Bears, Consent
    <2>3. Consent(q) \in halted \/ q \in overtaken'
      BY <1>3 DEF Bears, PastFlags
    <2> QED BY <1>3, <2>2, <2>3 DEF IInv, Backed, Bears
  <1>4. ASSUME At(q, "text")
        PROVE  Consent(q) \in granted' /\ (Consent(q) \in halted' => q \in overtaken')
    BY <1>4 DEF IInv, Backed, Bears, Logs, PastFlags
  <1> QED BY <1>1, <1>2, <1>3, <1>4 DEF Backed

LEMMA RequestMoves ==
    ASSUME IInv, NEW r \in Requests, Moves(r), Logs, restarts' = restarts,
           \A q \in Requests \ {r} : Bears(q), Backed(r)'
    PROVE  IInv'
  <1>1. ConsentTypeOK'
    BY DEF IInv, ConsentTypeOK, Moves, Logs
  <1>2. Scripted'
    BY DEF IInv, Scripted, Moves, InFlight, Gated, ForUser
  <1>3. ASSUME NEW q \in Requests PROVE Backed(q)'
    BY StaysBacked DEF Moves
  <1> QED BY <1>1, <1>2, <1>3 DEF IInv, Logs

LEMMA AccountsMove ==
    ASSUME IInv, UNCHANGED <<req, restarts>>, Logs, \A q \in Requests : Bears(q)
    PROVE  IInv'
  <1>1. ConsentTypeOK'
    BY DEF IInv, ConsentTypeOK, Logs
  <1>2. Scripted'
    BY DEF IInv, Scripted
  <1>3. \A q \in Requests : Backed(q)'
    BY StaysBacked
  <1> QED BY <1>1, <1>2, <1>3 DEF IInv, Logs

LEMMA NotPast ==
    ASSUME NEW r \in Requests, ~PastFlags(r)'
    PROVE  Backed(r)'
  BY DEF PastFlags, Backed

\* A statement outside the gate does not move into it past the flags.
LEMMA Proceeds ==
    ASSUME IInv, NEW r \in Requests, NEW s, At(r, s), s \notin {"flags", "latestGrant"},
           NEW new, Same(new, r), Continue(r, new) \/ End(r), Logs,
           \A q \in Requests \ {r} : Bears(q), restarts' = restarts
    PROVE  IInv'
  <1>1. ConsentTypeOK /\ Scripted
    BY DEF IInv
  <1>2. Moves(r) /\ ~PastFlags(r)'
    <2>1. CASE Continue(r, new)
      <3>1. Moves(r) /\ (At(r, "latestGrant")' => s = "flags") /\ (At(r, "text")' => s = "latestGrant")
        BY <1>1, <2>1, Continues
      <3> QED BY <3>1 DEF PastFlags
    <2>2. CASE End(r)
      BY <1>1, <2>2, Ends DEF At, PastFlags
    <2> QED BY <2>1, <2>2
  <1> QED BY <1>2, NotPast, RequestMoves

------------------------------------------------------------------------------
(* The actions *)

LEMMA Arrives ==
    ASSUME IInv, NEW r \in Requests, Arrive(r), restarts' = restarts
    PROVE  IInv'
  <1> USE ScriptsStart DEF Paths
  <1>1. ConsentTypeOK /\ acct \in [Users -> Account] /\ \A u \in Users : acct[u] \in Account
    BY DEF IInv, ConsentTypeOK
  <1>2. \A u \in Users : acct[u].phone \in Phones \cup {NoPhone}
    BY <1>1 DEF Account
  <1> DEFINE Goal == Moves(r) /\ ~PastFlags(r)' /\ UNCHANGED log /\ FlagsKept
  <1>3. SUFFICES Goal
    BY LogKept, NotPast, RequestMoves
  <1>4. UNCHANGED acct => FlagsKept
    BY <1>1 DEF FlagsKept
  <1>5. ASSUME NEW u \in Users, NEW n \in Phones, Signup(r, u, n) PROVE Goal
    <2>1. acct' = [acct EXCEPT ![u] = [acct[u] EXCEPT !.joined = TRUE, !.phone = n]]
      BY <1>1, <1>5 DEF Signup
    <2>2. \A a \in Account : LET b == [a EXCEPT !.joined = TRUE, !.phone = n]
                             IN  b \in Account /\ b.smsConsent = a.smsConsent
      BY DEF Account
    <2>3. FlagsKept
      BY <1>1, <2>1, <2>2 DEF FlagsKept
    <2> QED BY <1>1, <1>5, <2>3, Begins DEF Signup
  <1>6. ASSUME NEW u \in Users, NEW n \in Phones,
               SetActivationPhone(r, u, n) \/ SessionSend(r, u, n) \/ ProfileSend(r, u, n)
        PROVE  Goal
    <2>1. CASE SetActivationPhone(r, u, n)
      BY <1>1, <1>4, <2>1, Begins DEF SetActivationPhone
    <2>2. CASE SessionSend(r, u, n)
      BY <1>1, <1>4, <2>2, Begins DEF SessionSend
    <2>3. CASE ProfileSend(r, u, n)
      BY <1>1, <1>4, <2>3, Begins DEF ProfileSend
    <2> QED BY <1>6, <2>1, <2>2, <2>3
  <1>7. ASSUME NEW u \in Users,
               \/ RequestActivationCode(r, u) \/ GrantSmsConsent(r, u)
               \/ WithdrawSmsConsent(r, u) \/ RequestPasswordReset(r, u)
        PROVE  Goal
    <2>1. acct[u].phone \in Phones /\ UNCHANGED <<acct, log>>
      BY <1>2, <1>7 DEF RequestActivationCode, GrantSmsConsent, WithdrawSmsConsent, RequestPasswordReset
    <2>2. CASE RequestActivationCode(r, u)
      BY <1>1, <1>4, <2>1, <2>2, Begins DEF RequestActivationCode
    <2>3. CASE GrantSmsConsent(r, u)
      BY <1>1, <1>4, <2>1, <2>3, Begins DEF GrantSmsConsent
    <2>4. CASE WithdrawSmsConsent(r, u)
      BY <1>1, <1>4, <2>1, <2>4, Begins DEF WithdrawSmsConsent
    <2>5. CASE RequestPasswordReset(r, u)
      BY <1>1, <1>4, <2>1, <2>5, Begins DEF RequestPasswordReset
    <2> QED BY <1>7, <2>2, <2>3, <2>4, <2>5
  <1>8. ASSUME NEW n \in Phones, HandleStart(r, n) PROVE Goal
    <2>1. Script("start") = <<"holders", "resubscribe">>
      BY DEF Script
    <2> QED BY <1>1, <1>4, <1>8, <2>1, Begins DEF HandleStart
  <1> HIDE DEF Goal
  <1> QED BY <1>5, <1>6, <1>7, <1>8 DEF Arrive

\* The consent recorded is the one the request is for.
LEMMA Records ==
    ASSUME IInv, NEW r \in Requests, RecordConsent(r) \/ CaptureConsent(r), restarts' = restarts
    PROVE  IInv'
  <1>1. PICK s \in {"recordConsent", "captureConsent"} :
          At(r, s) /\ Grant(req[r].user, req[r].phone) /\ Continue(r, req[r])
    BY DEF RecordConsent, CaptureConsent
  <1>2. ConsentTypeOK /\ Scripted /\ req[r].user \in Users /\ req[r].phone \in Phones /\ Same(req[r], r)
    BY <1>1, Serving DEF IInv
  <1>3. \A u \in Users : /\ [acct[u] EXCEPT !.smsConsent = TRUE, !.smsOptedOut = FALSE] \in Account
                         /\ [acct[u] EXCEPT !.smsConsent = TRUE] \in Account
    BY <1>2 DEF ConsentTypeOK, Account
  <1>4. \/ acct' = [acct EXCEPT ![req[r].user] =
                      [acct[req[r].user] EXCEPT !.smsConsent = TRUE, !.smsOptedOut = FALSE]]
        \/ acct' = [acct EXCEPT ![req[r].user] = [acct[req[r].user] EXCEPT !.smsConsent = TRUE]]
    BY <1>2 DEF RecordConsent, CaptureConsent, ConsentTypeOK
  <1>5. acct' \in [Users -> Account] /\ \A v \in Users \ {req[r].user} : acct'[v] = acct[v]
    BY <1>2, <1>3, <1>4 DEF ConsentTypeOK
  <1>6. Logs /\ \A q \in Requests : Bears(q)
    BY <1>1, <1>2, <1>5, GrantLogs
  <1> QED BY <1>1, <1>2, <1>6, Proceeds

\* recordConsentIfMissing notes what it reads, or writes the consent.
LEMMA Finds ==
    ASSUME IInv, NEW r \in Requests, FindConsentHeld(r) \/ FindGrantOnFile(r), restarts' = restarts
    PROVE  IInv'
  <1>1. PICK s \in {"consentHeld", "grantOnFile"} : At(r, s)
    BY DEF FindConsentHeld, FindGrantOnFile
  <1>2. ConsentTypeOK /\ Scripted /\ req[r] \in Request /\ req[r].user \in Users
    BY <1>1, Serving DEF IInv
  <1>3. ConsentHeld(req[r].user) \in BOOLEAN /\ (Consent(r) \in granted) \in BOOLEAN
    BY <1>2 DEF ConsentHeld, ConsentTypeOK, Account
  <1>4. PICK held \in BOOLEAN : Find(r, held)
    <2>1. Find(r, ConsentHeld(req[r].user)) \/ Find(r, Consent(r) \in granted)
      BY Zenon DEF FindConsentHeld, FindGrantOnFile, Consent
    <2> QED BY <1>3, <2>1, Zenon
  <1> DEFINE c == req[r]
             new == [c EXCEPT !.held = c.held /\ held]
  <1>5. Continue(r, new) /\ UNCHANGED <<acct, log>>
    BY <1>4 DEF Find
  <1>6. Same(new, r)
    <2>1. c.held \in BOOLEAN
      BY <1>2 DEF Request
    <2>2. (c.held /\ held) \in BOOLEAN
      OBVIOUS
    <2>3. \A h \in BOOLEAN : Same([c EXCEPT !.held = h], r)
      BY <1>2 DEF Same, Request
    <2> QED BY <2>2, <2>3
  <1> HIDE DEF new
  <1>7. Logs /\ \A q \in Requests : Bears(q)
    BY <1>2, <1>5, LogKept DEF FlagsKept, ConsentTypeOK
  <1> QED BY <1>1, <1>5, <1>6, <1>7, Proceeds

LEMMA Misses ==
    ASSUME IInv, NEW r \in Requests, FindGrantIsLatest(r), restarts' = restarts
    PROVE  IInv'
  <1>1. At(r, "grantIsLatest") /\ UNCHANGED <<acct, log>>
    BY DEF FindGrantIsLatest
  <1>2. ConsentTypeOK /\ Scripted /\ Same(req[r], r)
    BY <1>1, Serving DEF IInv
  <1>3. Logs /\ \A q \in Requests : Bears(q)
    BY <1>1, <1>2, LogKept DEF FlagsKept, ConsentTypeOK
  <1>4. CASE Continue(r, req[r])
    BY <1>1, <1>2, <1>3, <1>4, Proceeds
  <1>5. CASE req' = [req EXCEPT ![r].todo = <<"captureConsent">> \o Tail(@), ![r].held = TRUE]
    <2> DEFINE c == req[r]
               d == [[c EXCEPT !.todo = <<"captureConsent">> \o Tail(c.todo)] EXCEPT !.held = TRUE]
    <2>1. /\ c \in Request /\ c.todo # <<>> /\ InFlight(c)
          /\ c.todo \in Seq(Statements) /\ c.todo[1] = "grantIsLatest"
      BY <1>1, <1>2, Serving
    <2>2. req' = [req EXCEPT ![r] = d]
      BY <1>2, <1>5 DEF ConsentTypeOK
    <2> HIDE DEF c
    <2>3. <<"captureConsent">> \in Seq(Statements)
      BY DEF Statements
    <2>4. Tail(c.todo) \in Seq(Statements)
      BY <2>1
    <2>5. <<"captureConsent">> \o Tail(c.todo) \in Seq(Statements)
          /\ (<<"captureConsent">> \o Tail(c.todo))[1] = "captureConsent"
          /\ <<"captureConsent">> \o Tail(c.todo) # <<>>
      BY <2>3, <2>4
    <2>6. /\ d \in Request /\ d.todo = <<"captureConsent">> \o Tail(c.todo)
          /\ d.user = c.user /\ d.phone = c.phone
      BY <2>1, <2>5 DEF Request
    <2> HIDE DEF d
    <2>7. InFlight(d)
      BY <2>1, <2>3, <2>6, Rest
    <2>8. Moves(r) /\ req'[r] = d
      BY <1>2, <2>2, <2>6, <2>7 DEF Moves, ConsentTypeOK
    <2>9. ~PastFlags(r)'
      BY <2>5, <2>6, <2>8 DEF At, PastFlags
    <2> QED BY <1>3, <2>8, <2>9, NotPast, RequestMoves
  <1> QED BY <1>4, <1>5 DEF FindGrantIsLatest

\* The flags it has read were not those of a stopped number.
LEMMA FlagsHold ==
    ASSUME IInv, NEW r \in Requests, AssertFlags(r), restarts' = restarts
    PROVE  IInv'
  <1>1. At(r, "flags") /\ UNCHANGED <<acct, log>>
    BY DEF AssertFlags
  <1>2. /\ ConsentTypeOK /\ Scripted /\ Same(req[r], r)
        /\ req[r].user \in Users /\ req[r].phone \in Phones
    BY <1>1, Serving DEF IInv
  <1>3. Logs /\ \A q \in Requests : Bears(q)
    BY <1>1, <1>2, LogKept DEF FlagsKept, ConsentTypeOK
  <1>4. CASE End(r)
    <2>1. Moves(r) /\ ~PastFlags(r)'
      BY <1>2, <1>4, Ends DEF At, PastFlags
    <2> QED BY <1>3, <2>1, NotPast, RequestMoves
  <1>5. CASE acct[req[r].user].smsConsent /\ Continue(r, req[r])
    <2>1. Moves(r) /\ ~At(r, "text")' /\ (Consent(r)' = Consent(r) \/ req'[r].todo = <<>>)
      BY <1>1, <1>2, <1>5, Continues
    <2>2. ~(Consent(r) \in halted /\ grantLast[req[r].user] = req[r].phone)
      BY <1>2, <1>5 DEF IInv, HaltedFlags, Consent
    <2>3. halted' = halted /\ grantLast' = grantLast
      BY <1>1 DEF log, ledger
    <2>4. Backed(r)'
      BY <2>1, <2>2, <2>3 DEF Backed, Consent, At
    <2> QED BY <1>3, <2>1, <2>4, RequestMoves
  <1> QED BY <1>4, <1>5 DEF AssertFlags

\* The gate: the latest grant it has read is for the number the text goes to.
LEMMA GateOpens ==
    ASSUME IInv, NEW r \in Requests, AssertLatestGrant(r), restarts' = restarts
    PROVE  IInv'
  <1>1. At(r, "latestGrant") /\ UNCHANGED <<acct, ledger, halted>>
    BY DEF AssertLatestGrant
  <1>2. /\ ConsentTypeOK /\ Scripted /\ Same(req[r], r)
        /\ req[r].user \in Users /\ req[r].phone \in Phones
    BY <1>1, Serving DEF IInv
  <1>3. overtaken' \subseteq Requests /\ \A q \in Requests \ {r} : q \in overtaken => q \in overtaken'
    BY <1>2 DEF AssertLatestGrant, ConsentTypeOK
  <1>4. Logs /\ \A q \in Requests \ {r} : Bears(q)
    BY <1>1, <1>2, <1>3, LedgerKept DEF FlagsKept, ConsentTypeOK
  <1>5. CASE End(r)
    <2>1. Moves(r) /\ ~PastFlags(r)'
      BY <1>2, <1>5, Ends DEF At, PastFlags
    <2> QED BY <1>4, <2>1, NotPast, RequestMoves
  <1>6. CASE GrantMatches(req[r].user, req[r].phone) /\ Continue(r, req[r]) /\ UNCHANGED overtaken
    <2>1. /\ Consent(r) \in granted /\ (Consent(r) \in halted => r \in overtaken)
      BY <1>1, <1>2, <1>6
         DEF ConsentAssumption, GrantMatches, IInv, GrantsAreLogged, Backed, Consent
    <2>2. Moves(r) /\ ~At(r, "latestGrant")' /\ (Consent(r)' = Consent(r) \/ req'[r].todo = <<>>)
      BY <1>1, <1>2, <1>6, Continues
    <2>3. granted' = granted /\ halted' = halted
      BY <1>1 DEF ledger
    <2>4. Backed(r)'
      BY <1>6, <2>1, <2>2, <2>3 DEF Backed, At
    <2> QED BY <1>4, <2>2, <2>4, RequestMoves
  <1> QED BY <1>5, <1>6 DEF AssertLatestGrant

LEMMA ReadsAndTexts ==
    ASSUME IInv, NEW r \in Requests, restarts' = restarts,
           FindHolders(r) \/ IsNumberStopped(r) \/ StillUnproved(r) \/ Text(r)
    PROVE  IInv'
  <1>1. PICK s \in {"holders", "isNumberStopped", "unproved", "text"} : At(r, s)
    BY DEF FindHolders, IsNumberStopped, StillUnproved, Text
  <1>2. UNCHANGED <<acct, ledger, halted>> /\ (Continue(r, req[r]) \/ End(r))
    BY DEF FindHolders, IsNumberStopped, StillUnproved, Text, log
  <1>3. ConsentTypeOK /\ Same(req[r], r)
    BY <1>1, Serving DEF IInv
  <1>4. overtaken' \subseteq Requests /\ \A q \in Requests \ {r} : q \in overtaken => q \in overtaken'
    BY <1>3 DEF FindHolders, IsNumberStopped, StillUnproved, Text, log, ConsentTypeOK
  <1>5. Logs /\ \A q \in Requests \ {r} : Bears(q)
    BY <1>2, <1>3, <1>4, LedgerKept DEF FlagsKept, ConsentTypeOK
  <1> QED BY <1>1, <1>2, <1>3, <1>5, Proceeds

LEMMA Stores ==
    ASSUME IInv, NEW r \in Requests, StorePhone(r), restarts' = restarts
    PROVE  IInv'
  <1>1. PICK s \in {"setPhone", "store"} : At(r, s)
    BY DEF StorePhone
  <1>2. /\ ConsentTypeOK /\ Scripted /\ Same(req[r], r)
        /\ req[r].user \in Users /\ req[r].phone \in Phones
    BY <1>1, Serving DEF IInv
  <1> DEFINE u == req[r].user
  <1>3. acct' = [acct EXCEPT ![u] = [acct[u] EXCEPT !.phone = req[r].phone, !.verified = FALSE]]
    BY <1>2 DEF StorePhone, ConsentTypeOK
  <1>4. \A a \in Account, n \in Phones :
          LET b == [a EXCEPT !.phone = n, !.verified = FALSE]
          IN  b \in Account /\ b.smsConsent = a.smsConsent
    BY DEF Account
  <1>5. FlagsKept
    BY <1>2, <1>3, <1>4 DEF ConsentTypeOK, FlagsKept
  <1>6. Logs /\ (\A q \in Requests : Bears(q)) /\ Continue(r, req[r])
    BY <1>5, LogKept DEF StorePhone
  <1> QED BY <1>1, <1>2, <1>6, Proceeds

LEMMA Withdraws ==
    ASSUME IInv, NEW r \in Requests, Withdraw(r) \/ Resubscribe(r), restarts' = restarts
    PROVE  IInv'
  <1>1. CASE Withdraw(r)
    <2>1. At(r, "optOut") /\ OptOut(req[r].phone) /\ Continue(r, req[r])
      BY <1>1 DEF Withdraw
    <2>2. req[r].phone \in Phones /\ Same(req[r], r)
      BY <2>1, Serving DEF IInv
    <2>3. Logs /\ \A q \in Requests : Bears(q)
      BY <2>1, <2>2, OptOutLogs
    <2> QED BY <2>1, <2>2, <2>3, Proceeds
  <1>2. CASE Resubscribe(r)
    <2>1. /\ At(r, "resubscribe") /\ Continue(r, req[r])
          /\ UNCHANGED <<grantLast, granted, halted, overtaken>>
      BY <1>2 DEF Resubscribe
    <2>2. req[r].phone \in Phones /\ Same(req[r], r) /\ ConsentTypeOK
      BY <2>1, Serving DEF IInv
    <2>3. \A u \in Users : Resumed(acct[u]) \in Account /\ Resumed(acct[u]).smsConsent = acct[u].smsConsent
      BY <2>2 DEF ConsentTypeOK, Account, Resumed
    <2>4. FlagsKept
      BY <1>2, <2>2, <2>3 DEF Resubscribe, ConsentTypeOK, FlagsKept
    <2>5. numberLast' \in [Phones -> Events]
      BY <1>2, <2>2 DEF Resubscribe, ConsentTypeOK, Events
    <2>6. Logs
      BY <2>1, <2>2, <2>4, <2>5 DEF Logs, FlagsKept, ConsentTypeOK, IInv, GrantsAreLogged, HaltedFlags
    <2>7. \A q \in Requests : Bears(q)
      BY <2>1 DEF Bears
    <2> QED BY <2>1, <2>2, <2>6, <2>7, Proceeds
  <1> QED BY <1>1, <1>2

LEMMA AccountsChange ==
    ASSUME IInv, restarts' = restarts,
           \/ \E n \in Phones : HandleStop(n)
           \/ \E u \in Users : VerifyPhone(u)
           \/ \E u \in Users, n \in Phones \cup {NoPhone} : ChangePhone(u, n)
    PROVE  IInv'
  <1>1. CASE \E n \in Phones : HandleStop(n)
    BY <1>1, OptOutLogs, AccountsMove DEF HandleStop
  <1>2. acct \in [Users -> Account] /\ \A u \in Users : acct[u] \in Account
    BY DEF IInv, ConsentTypeOK
  <1>3. ASSUME NEW u \in Users, NEW row \in Account, row.smsConsent = acct[u].smsConsent,
               acct' = [acct EXCEPT ![u] = row], UNCHANGED <<log, req>>
        PROVE  IInv'
    <2>1. FlagsKept
      BY <1>2, <1>3 DEF FlagsKept
    <2> QED BY <1>3, <2>1, LogKept, AccountsMove
  <1>4. ASSUME NEW u \in Users, VerifyPhone(u) PROVE IInv'
    <2>1. \A a \in Account : LET b == [a EXCEPT !.verified = TRUE]
                             IN  b \in Account /\ b.smsConsent = a.smsConsent
      BY DEF Account
    <2>2. acct' = [acct EXCEPT ![u] = [acct[u] EXCEPT !.verified = TRUE]] /\ UNCHANGED <<log, req>>
      BY <1>4 DEF VerifyPhone
    <2> QED BY <1>2, <1>3, <2>1, <2>2
  <1>5. ASSUME NEW u \in Users, NEW n \in Phones \cup {NoPhone}, ChangePhone(u, n) PROVE IInv'
    <2>1. \A a \in Account : LET b == [a EXCEPT !.phone = n, !.verified = FALSE]
                             IN  b \in Account /\ b.smsConsent = a.smsConsent
      BY DEF Account
    <2>2. /\ acct' = [acct EXCEPT ![u] = [acct[u] EXCEPT !.phone = n, !.verified = FALSE]]
          /\ UNCHANGED <<log, req>>
      BY <1>2, <1>5 DEF ChangePhone
    <2> QED BY <1>2, <1>3, <2>1, <2>2
  <1> QED BY <1>1, <1>4, <1>5

LEMMA Restarts ==
    ASSUME IInv, Restart
    PROVE  IInv'
  <1>1. restarts' \in 0..MaxRestarts /\ req' \in [Requests -> Request]
    BY IdleScripted DEF ConsentAssumption, IInv, ConsentTypeOK, Restart
  <1>2. Logs
    BY LedgerKept DEF Restart, IInv, ConsentTypeOK, FlagsKept
  <1>3. \A r \in Requests : InFlight(req'[r]) /\ ~PastFlags(r)'
    BY IdleScripted DEF Restart, At, PastFlags
  <1>4. ConsentTypeOK'
    BY <1>1, <1>2 DEF ConsentTypeOK, Logs
  <1>5. Scripted'
    BY <1>3 DEF Scripted, InFlight, Gated, ForUser
  <1>6. \A r \in Requests : Backed(r)'
    BY <1>3, NotPast
  <1> QED BY <1>2, <1>4, <1>5, <1>6 DEF IInv, Logs

------------------------------------------------------------------------------

LEMMA InitInvariant == ConsentAssumption /\ Init => IInv
  <1> SUFFICES ASSUME ConsentAssumption, Init PROVE IInv
    OBVIOUS
  <1>1. ConsentTypeOK
    BY IdleScripted DEF ConsentAssumption, Init, ConsentTypeOK, Account, Events
  <1>2. Scripted /\ \A r \in Requests : Backed(r)
    BY IdleScripted DEF Init, Scripted, Backed, At
  <1>3. GrantsAreLogged /\ HaltedFlags
    BY DEF Init, GrantsAreLogged, HaltedFlags
  <1> QED BY <1>1, <1>2, <1>3 DEF IInv

LEMMA StepInvariant == IInv /\ [Next]_vars => IInv'
  <1> SUFFICES ASSUME IInv, [Next]_vars PROVE IInv'
    OBVIOUS
  <1>1. CASE Restart
    BY <1>1, Restarts
  <1>2. CASE Operate /\ UNCHANGED restarts
    <2>1. ASSUME NEW r \in Requests, Arrive(r) PROVE IInv'
      BY <1>2, <2>1, Arrives
    <2>2. ASSUME NEW r \in Requests, Serve(r) PROVE IInv'
      BY <1>2, <2>2, Records, Finds, Misses, FlagsHold, GateOpens, ReadsAndTexts, Stores,
         Withdraws DEF Serve
    <2> QED BY <1>2, <2>1, <2>2, AccountsChange DEF Operate
  <1>3. CASE UNCHANGED vars
    <2>1. UNCHANGED log /\ FlagsKept /\ UNCHANGED <<req, restarts>>
      BY <1>3 DEF vars, log, ledger, IInv, ConsentTypeOK, FlagsKept
    <2> QED BY <2>1, LogKept, AccountsMove
  <1> QED BY <1>1, <1>2, <1>3 DEF Next

\* The rows, the log and the requests keep their types.
THEOREM ConsentTyped ==
    ASSUME ConsentAssumption
    PROVE  Spec => []ConsentTypeOK
  <1>1. IInv => ConsentTypeOK
    BY DEF IInv
  <1> QED BY <1>1, InitInvariant, StepInvariant, PTL DEF Spec

\* On each path that texts a code, whoever stops, starts, withdraws or changes
\* the number meanwhile: the account recorded consent for that number, and no
\* STOP and no withdrawal has ended it since, unless it came after the request
\* had read the flags.
THEOREM TextsTheorem ==
    ASSUME ConsentAssumption
    PROVE  Spec => []TextsAreBackedByGrant
  <1>1. IInv => TextsAreBackedByGrant
    BY DEF IInv, Backed, TextsAreBackedByGrant, Consent
  <1> QED BY <1>1, InitInvariant, StepInvariant, PTL DEF Spec
==============================================================================
