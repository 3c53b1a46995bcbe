------------------------- MODULE PasswordReset_proofs -------------------------
(* Theorems about PasswordReset, for any number of concurrent requests, codes *)
(* and crashes: it implements OneTimeCode, and a spent code is spent.         *)
EXTENDS PasswordReset, FiniteSetTheorems, TLAPS

\* The requests that have compared a wrong guess and not counted it yet.
Missing == {r \in Requests : At(r, "miss")}

\* The requests about to change the password with a code.
Redeeming(c) == {r \in Requests : At(r, "setPassword") /\ req[r].code = c}

\* Attempts, counted or about to be, never pass the limit by more than the
\* other requests; every guess is among them, or was lost in a crash.
AttemptsBounded == acct.attempts + Cardinality(Missing) <= MaxAttempts - 1 + InFlight
GuessesCounted ==
    acct.code # NoCode =>
        guesses[acct.code] <= acct.attempts + Cardinality(Missing) + InFlight * restarts

\* The code that counts has bought nothing: buying clears the row.  One that
\* does not count any more is left to the requests that had read it.
CurrentUnspent == acct.code # NoCode => resets[acct.code] = 0
ResetsCounted  == \A c \in Codes : resets[c] + Cardinality(Redeeming(c)) <= InFlight

\* Who changes the password does so with a code.
RedeemsCode == \A r \in Requests : At(r, "setPassword") \/ At(r, "text") => req[r].code \in Codes

Counting == AttemptsBounded /\ GuessesCounted
Spending == CurrentUnspent /\ ResetsCounted /\ RedeemsCode

IInv == TypeOK /\ Counting /\ Spending

------------------------------------------------------------------------------
(* Numbers *)

LEMMA Numbers ==
    ASSUME ResetAssumption
    PROVE  /\ InFlight \in Nat /\ AttemptsCap = MaxAttempts + InFlight
           /\ AttemptsCap \in Nat /\ GuessCap \in Nat
           /\ \A k \in Nat : /\ InFlight * k \in Nat
                             /\ InFlight * (k + 1) = InFlight * k + InFlight
           /\ \A k \in 0..MaxRestarts : InFlight * k + MaxAttempts + InFlight <= GuessCap
  <1>1. InFlight \in Nat
    BY FS_CardinalityType DEF InFlight, ResetAssumption
  <1>2. \A k \in Nat : InFlight * k \in Nat /\ InFlight * (k + 1) = InFlight * k + InFlight
    BY <1>1
  <1>3. AttemptsCap = MaxAttempts + InFlight /\ GuessCap = MaxAttempts + InFlight * (MaxRestarts + 1)
    BY DEF AttemptsCap, GuessCap
  <1>4. AttemptsCap \in Nat /\ GuessCap \in Nat
    BY <1>1, <1>2, <1>3 DEF ResetAssumption
  <1>5. ASSUME NEW k \in 0..MaxRestarts
        PROVE  InFlight * k + MaxAttempts + InFlight <= GuessCap
    <2>1. InFlight * k <= InFlight * MaxRestarts
      BY <1>1 DEF ResetAssumption
    <2>2. /\ InFlight * MaxRestarts \in Nat /\ InFlight * k \in Nat
          /\ InFlight * (MaxRestarts + 1) = InFlight * MaxRestarts + InFlight
      BY <1>2 DEF ResetAssumption
    <2> QED BY <1>1, <1>3, <2>1, <2>2 DEF ResetAssumption
  <1> QED BY <1>1, <1>2, <1>3, <1>4, <1>5

LEMMA CappedTyped ==
    ASSUME NEW max \in Nat, NEW n \in 0..max
    PROVE  Capped(n, max) \in 0..max /\ (n < max => Capped(n, max) = n + 1)
  BY DEF Capped

\* Sets of requests, and how they grow and shrink by one.
LEMMA SetsOfRequests ==
    ASSUME ResetAssumption, NEW S, S \subseteq Requests
    PROVE  /\ IsFiniteSet(S) /\ Cardinality(S) \in Nat /\ Cardinality(S) <= InFlight
           /\ \A r \in Requests :
                /\ r \in S => /\ Cardinality(S \ {r}) = Cardinality(S) - 1
                              /\ Cardinality(S) >= 1
                /\ r \notin S => /\ Cardinality(S \cup {r}) = Cardinality(S) + 1
                                 /\ Cardinality(S) <= InFlight - 1
  <1>1. IsFiniteSet(S) /\ Cardinality(S) <= InFlight
    BY FS_Subset DEF InFlight, ResetAssumption
  <1>2. Cardinality(S) \in Nat /\ InFlight \in Nat
    BY <1>1, Numbers, FS_CardinalityType
  <1>3. ASSUME NEW r \in S
        PROVE  Cardinality(S \ {r}) = Cardinality(S) - 1 /\ Cardinality(S) >= 1
    <2>1. IsFiniteSet(S \ {r}) /\ Cardinality(S \ {r}) = Cardinality(S) - 1
      BY <1>1, FS_RemoveElement
    <2>2. Cardinality(S \ {r}) \in Nat
      BY <2>1, FS_CardinalityType
    <2> QED BY <1>2, <2>1, <2>2
  <1>4. ASSUME NEW r \in Requests, r \notin S
        PROVE  Cardinality(S \cup {r}) = Cardinality(S) + 1 /\ Cardinality(S) <= InFlight - 1
    <2>1. Cardinality(S \cup {r}) = Cardinality(S) + 1
      BY <1>1, <1>4, FS_AddElement
    <2>2. S \cup {r} \subseteq Requests
      OBVIOUS
    <2>3. Cardinality(S \cup {r}) <= InFlight
      BY <2>2, FS_Subset DEF InFlight, ResetAssumption
    <2> QED BY <1>2, <2>1, <2>3
  <1> QED BY <1>1, <1>2, <1>3, <1>4

------------------------------------------------------------------------------
(* How a step moves a request, and what that does to the sets *)

Moves(r, c) == c \in Request /\ req' = [req EXCEPT ![r] = c]

LEMMA IdleTyped == Idle \in Request /\ Idle.pc = "idle"
  BY DEF Idle, Request

LEMMA Goes ==
    ASSUME NEW r \in Requests, NEW s, NEW c \in Codes \cup {NoCode}, Goto(r, s, c),
           s \in {"consent", "store", "text", "miss", "setPassword", "burn"}
    PROVE  Moves(r, [pc |-> s, code |-> c])
  BY DEF Goto, Moves, Request

LEMMA Ends ==
    ASSUME NEW r \in Requests, End(r)
    PROVE  Moves(r, Idle)
  BY IdleTyped DEF End, Moves

LEMMA MovedSets ==
    ASSUME TypeOK, NEW r \in Requests, NEW c, Moves(r, c)
    PROVE  /\ Missing' = IF c.pc = "miss" THEN Missing \cup {r} ELSE Missing \ {r}
           /\ \A k \in Codes : Redeeming(k)' = IF c.pc = "setPassword" /\ c.code = k
                                               THEN Redeeming(k) \cup {r}
                                               ELSE Redeeming(k) \ {r}
           /\ \A q \in Requests : req'[q] = IF q = r THEN c ELSE req[q]
  <1>1. \A q \in Requests : req'[q] = IF q = r THEN c ELSE req[q]
    BY DEF TypeOK, Moves
  <1>2. Missing' = IF c.pc = "miss" THEN Missing \cup {r} ELSE Missing \ {r}
    BY <1>1 DEF Missing, At
  <1>3. ASSUME NEW k \in Codes
        PROVE  Redeeming(k)' = IF c.pc = "setPassword" /\ c.code = k
                               THEN Redeeming(k) \cup {r} ELSE Redeeming(k) \ {r}
    BY <1>1 DEF Redeeming, At
  <1> QED BY <1>1, <1>2, <1>3

\* Who does not begin to guess, or to redeem, does not add to the counts.
LEMMA CountMoves ==
    ASSUME ResetAssumption, TypeOK, NEW r \in Requests, NEW c, Moves(r, c)
    PROVE  /\ Cardinality(Missing) \in Nat /\ Cardinality(Missing') \in Nat
           /\ Cardinality(Missing) <= InFlight
           /\ c.pc # "miss" => Cardinality(Missing') <= Cardinality(Missing)
           /\ c.pc # "miss" /\ At(r, "miss") => Cardinality(Missing') = Cardinality(Missing) - 1
           /\ ~At(r, "miss") => Cardinality(Missing) <= InFlight - 1
           /\ c.pc # "miss" /\ ~At(r, "miss") => Cardinality(Missing') = Cardinality(Missing)
           /\ c.pc = "miss" /\ ~At(r, "miss") => Cardinality(Missing') = Cardinality(Missing) + 1
  <1>1. /\ Missing \subseteq Requests /\ Missing' \subseteq Requests
        /\ r \in Missing <=> At(r, "miss")
    BY DEF Missing
  <1>2. /\ Cardinality(Missing) \in Nat /\ Cardinality(Missing') \in Nat
        /\ Cardinality(Missing) <= InFlight
    BY <1>1, SetsOfRequests
  <1>3. Missing' = IF c.pc = "miss" THEN Missing \cup {r} ELSE Missing \ {r}
    BY MovedSets
  <1>4. r \notin Missing => Missing \ {r} = Missing
    OBVIOUS
  <1>5. CASE At(r, "miss")
    <2>1. Cardinality(Missing \ {r}) = Cardinality(Missing) - 1
      BY <1>1, <1>5, SetsOfRequests
    <2> QED BY <1>2, <1>3, <1>5, <2>1
  <1>6. CASE ~At(r, "miss")
    <2>1. /\ Cardinality(Missing \cup {r}) = Cardinality(Missing) + 1
          /\ Cardinality(Missing) <= InFlight - 1
      BY <1>1, <1>6, SetsOfRequests
    <2> QED BY <1>1, <1>2, <1>3, <1>4, <1>6, <2>1
  <1> QED BY <1>5, <1>6

LEMMA RedeemMoves ==
    ASSUME ResetAssumption, TypeOK, NEW r \in Requests, NEW c, Moves(r, c), NEW k \in Codes
    PROVE  /\ Cardinality(Redeeming(k)) \in Nat /\ Cardinality(Redeeming(k)') \in Nat
           /\ Cardinality(Redeeming(k)') <= InFlight
           /\ ~(c.pc = "setPassword" /\ c.code = k) =>
                /\ Cardinality(Redeeming(k)') <= Cardinality(Redeeming(k))
                /\ r \in Redeeming(k) => Cardinality(Redeeming(k)') = Cardinality(Redeeming(k)) - 1
  <1>1. Redeeming(k) \subseteq Requests /\ Redeeming(k)' \subseteq Requests
    BY DEF Redeeming
  <1>2. /\ Cardinality(Redeeming(k)) \in Nat /\ Cardinality(Redeeming(k)') \in Nat
        /\ Cardinality(Redeeming(k)') <= InFlight
    BY <1>1, SetsOfRequests
  <1>3. ~(c.pc = "setPassword" /\ c.code = k) => Redeeming(k)' = Redeeming(k) \ {r}
    BY MovedSets
  <1>4. r \in Redeeming(k) => Cardinality(Redeeming(k) \ {r}) = Cardinality(Redeeming(k)) - 1
    BY <1>1, SetsOfRequests
  <1>5. r \notin Redeeming(k) => Redeeming(k) \ {r} = Redeeming(k)
    OBVIOUS
  <1> QED BY <1>2, <1>3, <1>4, <1>5

------------------------------------------------------------------------------
(* What the actions do to the code that counts, and to the histories *)

LEMMA Fields ==
    ASSUME ResetAssumption, IInv
    PROVE  /\ TypeOK /\ acct \in Account
           /\ acct.code \in Codes \cup {NoCode} /\ acct.attempts \in 0..AttemptsCap
           /\ acct.attempts \in Nat /\ restarts \in Nat /\ restarts \in 0..MaxRestarts
           /\ \A c \in Codes : guesses[c] \in Nat /\ resets[c] \in Nat
           /\ InFlight * restarts \in Nat /\ InFlight \in Nat
           /\ InFlight * (restarts + 1) = InFlight * restarts + InFlight
           /\ MaxAttempts \in Nat \ {0} /\ NoCode \notin Codes
           /\ \A r \in Requests : req[r] \in Request
  <1>1. /\ TypeOK /\ acct \in Account
        /\ acct.code \in Codes \cup {NoCode} /\ acct.attempts \in 0..AttemptsCap
        /\ restarts \in 0..MaxRestarts
        /\ \A c \in Codes : guesses[c] \in 0..GuessCap /\ resets[c] \in 0..(InFlight + 1)
        /\ \A r \in Requests : req[r] \in Request
    BY DEF IInv, TypeOK, Account
  <1>2. /\ acct.attempts \in Nat /\ restarts \in Nat
        /\ \A c \in Codes : guesses[c] \in Nat /\ resets[c] \in Nat
    <2>1. /\ AttemptsCap \in Nat /\ GuessCap \in Nat /\ InFlight + 1 \in Nat
          /\ MaxRestarts \in Nat
      <3>1. InFlight \in Nat /\ AttemptsCap \in Nat /\ GuessCap \in Nat
        BY Numbers
      <3> QED BY <3>1 DEF ResetAssumption
    <2>2. acct.attempts \in Nat /\ restarts \in Nat
      BY <1>1, <2>1
    <2>3. \A c \in Codes : guesses[c] \in Nat /\ resets[c] \in Nat
      BY <1>1, <2>1
    <2> QED BY <2>2, <2>3
  <1>3. /\ InFlight * restarts \in Nat /\ InFlight \in Nat
        /\ InFlight * (restarts + 1) = InFlight * restarts + InFlight
    BY <1>2, Numbers
  <1> QED BY <1>1, <1>2, <1>3 DEF ResetAssumption

\* A write that keeps the code and the count of the attempts, or drops the code.
LEMMA Writing ==
    ASSUME ResetAssumption, IInv, NEW r \in Requests, NEW c, Moves(r, c),
           c.pc \notin {"miss", "setPassword"}, c.pc = "text" => c.code \in Codes,
           UNCHANGED <<guesses, restarts>>,
           acct' \in Account, texted' \subseteq Codes, forgotten' \in BOOLEAN,
           resets' \in [Codes -> 0..(InFlight + 1)], ResetsCounted',
           \/ /\ acct'.code = acct.code /\ resets' = resets
              /\ acct'.attempts + Cardinality(Missing') = acct.attempts + Cardinality(Missing)
           \/ acct'.code = NoCode /\ acct'.attempts = 0
    PROVE  IInv' /\ [Once!Next]_(Once!vars)
  <1>1. TypeOK'
    BY Fields DEF TypeOK, Moves
  <1>2. Cardinality(Missing') \in Nat /\ Cardinality(Missing') <= Cardinality(Missing)
        /\ Cardinality(Missing) \in Nat /\ Cardinality(Missing) <= InFlight
    BY CountMoves, Fields
  <1>3. AttemptsBounded'
    BY <1>2, Fields DEF IInv, Counting, AttemptsBounded
  <1>4. GuessesCounted'
    BY <1>2, Fields DEF IInv, Counting, GuessesCounted
  <1>5. CurrentUnspent'
    BY DEF IInv, Spending, CurrentUnspent
  <1>6. RedeemsCode'
    <2>1. \A q \in Requests : req'[q] = IF q = r THEN c ELSE req[q]
      BY MovedSets, Fields
    <2> QED BY <2>1 DEF IInv, Spending, RedeemsCode, At
  <1>7. IInv'
    BY <1>1, <1>3, <1>4, <1>5, <1>6 DEF IInv, Counting, Spending
  <1>8. CASE acct'.code = acct.code
    BY <1>7, <1>8 DEF Once!vars
  <1>9. CASE acct'.code = NoCode /\ acct.code # NoCode
    <2>1. Once!Clear
      BY <1>9 DEF Once!Clear
    <2> QED BY <1>7, <2>1 DEF Once!Next
  <1> QED BY <1>7, <1>8, <1>9

\* Without a password changed, the resets stay counted.
LEMMA ResetsStay ==
    ASSUME ResetAssumption, IInv, NEW r \in Requests, NEW c, Moves(r, c),
           c.pc # "setPassword", resets' = resets
    PROVE  ResetsCounted' /\ resets' \in [Codes -> 0..(InFlight + 1)]
  <1>1. ASSUME NEW k \in Codes PROVE resets'[k] + Cardinality(Redeeming(k)') <= InFlight
    <2>1. /\ Cardinality(Redeeming(k)') <= Cardinality(Redeeming(k))
          /\ Cardinality(Redeeming(k)') \in Nat /\ Cardinality(Redeeming(k)) \in Nat
      BY RedeemMoves, Fields
    <2>2. resets[k] + Cardinality(Redeeming(k)) <= InFlight
      BY DEF IInv, Spending, ResetsCounted
    <2> QED BY <2>1, <2>2, Fields
  <1>2. resets' \in [Codes -> 0..(InFlight + 1)]
    BY DEF IInv, TypeOK
  <1> QED BY <1>1, <1>2 DEF ResetsCounted

\* A request that only turns to its next step.
LEMMA Turning ==
    ASSUME ResetAssumption, IInv, NEW r \in Requests, ~At(r, "miss"),
           \/ RequestPasswordReset(r) \/ AssertMaySend(r)
           \/ TextDelivered(r) \/ TextFailed(r)
    PROVE  IInv' /\ [Once!Next]_(Once!vars)
  <1>1. PICK c : Moves(r, c) /\ c.pc \in {"consent", "store", "idle"}
    <2>1. \/ Goto(r, "consent", NoCode) \/ Goto(r, "store", NoCode) \/ End(r)
      BY DEF RequestPasswordReset, AssertMaySend, TextDelivered, TextFailed
    <2>2. CASE Goto(r, "consent", NoCode) \/ Goto(r, "store", NoCode)
      <3>1. PICK s \in {"consent", "store"} : Goto(r, s, NoCode)
        BY <2>2
      <3> DEFINE c == [pc |-> s, code |-> NoCode]
      <3>2. Moves(r, c) /\ c.pc = s
        BY <3>1, Goes
      <3> HIDE DEF c
      <3> QED BY <3>2
    <2>3. CASE End(r)
      BY <2>3, Ends, IdleTyped
    <2> QED BY <2>1, <2>2, <2>3
  <1>2. UNCHANGED <<acct, guesses, resets, forgotten, restarts>>
    BY DEF RequestPasswordReset, AssertMaySend, TextDelivered, TextFailed, history
  <1>3. texted' \subseteq Codes
    <2>1. CASE TextDelivered(r)
      BY <2>1 DEF TextDelivered, IInv, TypeOK, Spending, RedeemsCode
    <2>2. CASE texted' = texted
      BY <2>2 DEF IInv, TypeOK
    <2> QED BY <2>1, <2>2 DEF RequestPasswordReset, AssertMaySend, TextFailed, history
  <1>4. ResetsCounted' /\ resets' \in [Codes -> 0..(InFlight + 1)]
    BY <1>1, <1>2, ResetsStay
  <1>5. Cardinality(Missing') = Cardinality(Missing)
    BY <1>1, CountMoves, Fields
  <1>6. acct' \in Account /\ forgotten' \in BOOLEAN
    BY <1>2 DEF IInv, TypeOK
  <1> QED BY <1>1, <1>2, <1>3, <1>4, <1>5, <1>6, Writing

\* A new code: no request holds it.
LEMMA Storing ==
    ASSUME ResetAssumption, IInv, NEW r \in Requests, StoreCode(r)
    PROVE  IInv' /\ [Once!Next]_(Once!vars)
  <1>1. At(r, "store") /\ UNCHANGED <<forgotten, restarts>>
    BY DEF StoreCode
  <1>2. PICK k \in Codes \ InUse :
          /\ acct' = Issued(k) /\ Goto(r, "text", k)
          /\ texted' = texted \ {k}
          /\ guesses' = [guesses EXCEPT ![k] = 0]
          /\ resets' = [resets EXCEPT ![k] = 0]
    BY DEF StoreCode
  <1> DEFINE c == [pc |-> "text", code |-> k]
  <1>3. Moves(r, c) /\ c.pc = "text" /\ c.code = k
    BY <1>2, Goes
  <1> HIDE DEF c
  <1>4. k \in Codes /\ k # acct.code /\ k # NoCode /\ \A q \in Requests : req[q].code # k
    BY <1>2, Fields DEF InUse
  <1>5. acct' \in Account /\ acct'.code = k /\ acct'.attempts = 0
    <2>1. 0 \in 0..AttemptsCap /\ 0 \in 0..(CodeTtl + 1) /\ 0 \in 0..Cooldown
      BY Numbers DEF ResetAssumption
    <2> QED BY <1>2, <1>4, <2>1 DEF Issued, Account
  <1>6. guesses' \in [Codes -> 0..GuessCap] /\ resets' \in [Codes -> 0..(InFlight + 1)]
    <2>1. 0 \in 0..GuessCap /\ 0 \in 0..(InFlight + 1)
      BY Numbers
    <2> QED BY <1>2, <1>4, <2>1 DEF IInv, TypeOK
  <1>7. TypeOK'
    BY <1>1, <1>2, <1>3, <1>5, <1>6 DEF IInv, TypeOK, Moves
  <1>8. /\ Cardinality(Missing') = Cardinality(Missing)
        /\ Cardinality(Missing) \in Nat /\ Cardinality(Missing) <= InFlight - 1
    <2>1. ~At(r, "miss")
      BY <1>1 DEF At
    <2> QED BY <1>3, <2>1, CountMoves, Fields
  <1>9. AttemptsBounded'
    BY <1>5, <1>8, Fields DEF AttemptsBounded
  <1>10. guesses'[k] = 0 /\ resets'[k] = 0
    BY <1>2, <1>4, Fields DEF TypeOK
  <1>11. GuessesCounted' /\ CurrentUnspent'
    BY <1>1, <1>5, <1>8, <1>10, Fields DEF GuessesCounted, CurrentUnspent
  <1>12. ResetsCounted'
    <2>1. ASSUME NEW j \in Codes PROVE resets'[j] + Cardinality(Redeeming(j)') <= InFlight
      <3>1. /\ Cardinality(Redeeming(j)') <= Cardinality(Redeeming(j))
            /\ Cardinality(Redeeming(j)') \in Nat /\ Cardinality(Redeeming(j)) \in Nat
            /\ Cardinality(Redeeming(j)') <= InFlight
        BY <1>3, RedeemMoves, Fields
      <3>2. resets[j] + Cardinality(Redeeming(j)) <= InFlight
        BY DEF IInv, Spending, ResetsCounted
      <3>3. resets'[j] = 0 \/ resets'[j] = resets[j]
        BY <1>2, <1>4 DEF IInv, TypeOK
      <3> QED BY <3>1, <3>2, <3>3, Fields
    <2> QED BY <2>1 DEF ResetsCounted
  <1>13. RedeemsCode'
    <2>1. \A q \in Requests : req'[q] = IF q = r THEN c ELSE req[q]
      BY <1>3, MovedSets, Fields
    <2> QED BY <1>3, <1>4, <2>1 DEF IInv, Spending, RedeemsCode, At
  <1>14. Once!Issue(k)
    BY <1>1, <1>4, <1>5, <1>10 DEF Once!Issue
  <1> QED BY <1>4, <1>7, <1>9, <1>11, <1>12, <1>13, <1>14
          DEF IInv, Counting, Spending, Once!Next

\* A wrong guess: the code still allows one, and this request is not among
\* those that have one to count.
LEMMA Guessing ==
    ASSUME ResetAssumption, IInv, NEW r \in Requests, GuessWrong(r)
    PROVE  IInv' /\ [Once!Next]_(Once!vars)
  <1>1. /\ At(r, "idle") /\ ~At(r, "miss") /\ AcceptsGuess
        /\ UNCHANGED <<acct, texted, resets, forgotten, restarts>>
        /\ guesses' = [guesses EXCEPT ![acct.code] = Capped(@, GuessCap)]
    BY DEF GuessWrong, At
  <1> DEFINE c == [pc |-> "miss", code |-> NoCode]
  <1>2. Moves(r, c) /\ c.pc = "miss"
    BY Goes DEF GuessWrong
  <1> HIDE DEF c
  <1>3. /\ Cardinality(Missing') = Cardinality(Missing) + 1
        /\ Cardinality(Missing) <= InFlight - 1 /\ Cardinality(Missing) \in Nat
    BY <1>1, <1>2, CountMoves, Fields
  <1>4. acct.code # NoCode /\ acct.code \in Codes /\ acct.attempts <= MaxAttempts - 1
    BY <1>1, Fields DEF AcceptsGuess
  <1>5. guesses[acct.code] \in 0..GuessCap /\ GuessCap \in Nat /\ guesses[acct.code] \in Nat
    BY <1>4, Fields, Numbers DEF TypeOK
  <1>6. guesses[acct.code] <= acct.attempts + Cardinality(Missing) + InFlight * restarts
    BY <1>4 DEF IInv, Counting, GuessesCounted
  <1>7. guesses[acct.code] < MaxAttempts - 1 + InFlight * restarts + InFlight
    BY <1>3, <1>4, <1>5, <1>6, Fields
  <1>8. guesses'[acct.code] = guesses[acct.code] + 1
    <2>1. InFlight * restarts + MaxAttempts + InFlight <= GuessCap
      BY Fields, Numbers
    <2>2. guesses[acct.code] < GuessCap
      BY <1>5, <1>7, <2>1, Fields
    <2>3. guesses'[acct.code] = Capped(guesses[acct.code], GuessCap)
      BY <1>1, <1>4, Fields DEF TypeOK
    <2> QED BY <1>5, <2>2, <2>3, CappedTyped
  <1>9. guesses' \in [Codes -> 0..GuessCap]
    <2>1. Capped(guesses[acct.code], GuessCap) \in 0..GuessCap
      BY <1>5, CappedTyped
    <2> QED BY <1>1, <2>1, Fields DEF TypeOK
  <1>10. TypeOK'
    BY <1>1, <1>2, <1>9, Fields DEF TypeOK, Moves
  <1>11. AttemptsBounded'
    BY <1>1, <1>3, <1>4, Fields DEF AttemptsBounded
  <1>12. GuessesCounted'
    <2>1. guesses[acct.code] + 1 <= acct.attempts + (Cardinality(Missing) + 1) + InFlight * restarts
      BY <1>3, <1>5, <1>6, Fields
    <2> QED BY <1>1, <1>3, <1>8, <2>1 DEF GuessesCounted
  <1>13. Spending'
    <2>1. ResetsCounted'
      BY <1>1, <1>2, ResetsStay
    <2>2. RedeemsCode'
      <3>1. \A q \in Requests : req'[q] = IF q = r THEN c ELSE req[q]
        BY <1>2, MovedSets, Fields
      <3> QED BY <1>2, <3>1 DEF IInv, Spending, RedeemsCode, At
    <2> QED BY <1>1, <2>1, <2>2 DEF IInv, Spending, CurrentUnspent
  <1>14. Once!Miss
    <2>1. guesses[acct.code] < MaxAttempts - 1 + InFlight * (restarts + 1)
      BY <1>5, <1>7, Fields
    <2> QED BY <1>1, <1>4, <1>8, <2>1 DEF Once!Miss, Once!Allowed
  <1> QED BY <1>10, <1>11, <1>12, <1>13, <1>14 DEF IInv, Counting, Once!Next

\* A right guess: the code it was has bought nothing yet.
LEMMA GuessingRight ==
    ASSUME ResetAssumption, IInv, NEW r \in Requests, GuessRight(r)
    PROVE  IInv' /\ [Once!Next]_(Once!vars)
  <1>1. ~At(r, "miss") /\ AcceptsGuess /\ UNCHANGED <<acct, history>>
    BY DEF GuessRight, At
  <1> DEFINE c == [pc |-> "setPassword", code |-> acct.code]
  <1>2. acct.code \in Codes /\ acct.code # NoCode
    BY <1>1, Fields DEF AcceptsGuess
  <1>3. Moves(r, c) /\ c.pc = "setPassword" /\ c.code = acct.code
    BY <1>2, Goes DEF GuessRight
  <1> HIDE DEF c
  <1>4. TypeOK'
    BY <1>1, <1>3, Fields DEF TypeOK, Moves, history
  <1>5. Cardinality(Missing') = Cardinality(Missing)
    BY <1>1, <1>3, CountMoves, Fields
  <1>6. Counting'
    BY <1>1, <1>5 DEF IInv, Counting, AttemptsBounded, GuessesCounted, history
  <1>7. CurrentUnspent'
    BY <1>1 DEF IInv, Spending, CurrentUnspent, history
  <1>8. ResetsCounted'
    <2>1. ASSUME NEW k \in Codes PROVE resets'[k] + Cardinality(Redeeming(k)') <= InFlight
      <3>1. /\ Cardinality(Redeeming(k)') \in Nat /\ Cardinality(Redeeming(k)') <= InFlight
            /\ Cardinality(Redeeming(k)) \in Nat
        BY <1>3, RedeemMoves, Fields
      <3>2. CASE k = acct.code
        <4>1. resets'[k] = 0
          BY <1>1, <1>2, <3>2 DEF IInv, Spending, CurrentUnspent, history
        <4> QED BY <3>1, <4>1, Fields
      <3>3. CASE k # acct.code
        <4>1. Cardinality(Redeeming(k)') <= Cardinality(Redeeming(k))
          BY <1>3, <3>3, RedeemMoves, Fields
        <4>2. resets[k] + Cardinality(Redeeming(k)) <= InFlight /\ resets' = resets
          BY <1>1 DEF IInv, Spending, ResetsCounted, history
        <4> QED BY <3>1, <4>1, <4>2, Fields
      <3> QED BY <3>2, <3>3
    <2> QED BY <2>1 DEF ResetsCounted
  <1>9. RedeemsCode'
    <2>1. \A q \in Requests : req'[q] = IF q = r THEN c ELSE req[q]
      BY <1>3, MovedSets, Fields
    <2> QED BY <1>2, <1>3, <2>1 DEF IInv, Spending, RedeemsCode, At
  <1>10. UNCHANGED Once!vars
    BY <1>1 DEF Once!vars, history
  <1> QED BY <1>4, <1>6, <1>7, <1>8, <1>9, <1>10 DEF IInv, Spending

LEMMA CountingMiss ==
    ASSUME ResetAssumption, IInv, NEW r \in Requests, CountMiss(r)
    PROVE  IInv' /\ [Once!Next]_(Once!vars)
  <1>1. At(r, "miss") /\ Moves(r, Idle) /\ UNCHANGED history
    BY Ends DEF CountMiss
  <1>2. /\ Cardinality(Missing') = Cardinality(Missing) - 1
        /\ Cardinality(Missing) \in Nat /\ Cardinality(Missing') \in Nat
    BY <1>1, IdleTyped, CountMoves, Fields
  <1>3. acct.attempts < AttemptsCap
    BY <1>2, Fields, Numbers DEF IInv, Counting, AttemptsBounded
  <1>4. Capped(acct.attempts, AttemptsCap) = acct.attempts + 1 /\ acct.attempts + 1 \in 0..AttemptsCap
    BY <1>3, Fields, Numbers, CappedTyped
  <1>5. acct' = [acct EXCEPT !.attempts = acct.attempts + 1]
    BY <1>4 DEF CountMiss
  <1>6. acct' \in Account /\ acct'.code = acct.code /\ acct'.attempts = acct.attempts + 1
    BY <1>4, <1>5, Fields DEF Account
  <1>7. acct'.attempts + Cardinality(Missing') = acct.attempts + Cardinality(Missing)
    BY <1>2, <1>6, Fields
  <1>8. /\ UNCHANGED <<guesses, restarts, resets>>
        /\ texted' \subseteq Codes /\ forgotten' \in BOOLEAN
    BY <1>1, Fields DEF history, TypeOK
  <1>9. ResetsCounted' /\ resets' \in [Codes -> 0..(InFlight + 1)]
    BY <1>1, <1>8, IdleTyped, ResetsStay
  <1> QED BY <1>1, <1>6, <1>7, <1>8, <1>9, IdleTyped, Writing

LEMMA ClearedTyped ==
    ASSUME ResetAssumption, IInv
    PROVE  CodeCleared \in Account /\ CodeCleared.code = NoCode /\ CodeCleared.attempts = 0
  <1>1. 0 \in 0..AttemptsCap /\ 0 \in 0..(CodeTtl + 1)
    BY Numbers DEF ResetAssumption
  <1> QED BY <1>1, Fields DEF CodeCleared, Account

LEMMA Burning ==
    ASSUME ResetAssumption, IInv, NEW r \in Requests, BurnCode(r)
    PROVE  IInv' /\ [Once!Next]_(Once!vars)
  <1>1. Moves(r, Idle) /\ UNCHANGED history /\ acct' = CodeCleared
    BY Ends DEF BurnCode, CodeCleared
  <1>2. /\ UNCHANGED <<guesses, restarts, resets>>
        /\ texted' \subseteq Codes /\ forgotten' \in BOOLEAN
    BY <1>1, Fields DEF history, TypeOK
  <1>3. ResetsCounted' /\ resets' \in [Codes -> 0..(InFlight + 1)]
    BY <1>1, <1>2, IdleTyped, ResetsStay
  <1> QED BY <1>1, <1>2, <1>3, ClearedTyped, IdleTyped, Writing

\* The password changes: one more reset bought, one request less to buy one.
LEMMA Redeems ==
    ASSUME ResetAssumption, IInv, NEW r \in Requests, UpdatePassword(r)
    PROVE  IInv' /\ [Once!Next]_(Once!vars)
  <1>1. PICK k \in Codes : req[r].code = k
    BY DEF UpdatePassword, IInv, Spending, RedeemsCode
  <1> DEFINE c == [pc |-> "burn", code |-> k]
  <1>2. /\ At(r, "setPassword") /\ acct' = CodeCleared
        /\ resets' = [resets EXCEPT ![k] = Capped(@, InFlight + 1)]
        /\ forgotten' = FALSE /\ UNCHANGED <<texted, guesses, restarts>>
    BY <1>1 DEF UpdatePassword
  <1>3. Moves(r, c) /\ c.pc = "burn"
    BY <1>1, Goes DEF UpdatePassword
  <1>4. r \in Redeeming(k)
    BY <1>1, <1>2 DEF Redeeming
  <1> HIDE DEF c
  <1>5. \A j \in Codes : /\ Cardinality(Redeeming(j)) \in Nat /\ Cardinality(Redeeming(j)') \in Nat
                         /\ Cardinality(Redeeming(j)') <= Cardinality(Redeeming(j))
                         /\ resets[j] + Cardinality(Redeeming(j)) <= InFlight
    BY <1>3, RedeemMoves, Fields DEF IInv, Spending, ResetsCounted
  <1>6. Cardinality(Redeeming(k)') = Cardinality(Redeeming(k)) - 1
    BY <1>3, <1>4, RedeemMoves, Fields
  <1>7. Capped(resets[k], InFlight + 1) = resets[k] + 1 /\ resets[k] + 1 \in 0..(InFlight + 1)
    <2>1. resets[k] <= InFlight /\ resets[k] \in Nat
      BY <1>5, Fields
    <2>2. InFlight + 1 \in Nat /\ resets[k] \in 0..(InFlight + 1) /\ resets[k] < InFlight + 1
      BY <2>1, Fields
    <2> QED BY <2>2, CappedTyped
  <1>8. resets' = [resets EXCEPT ![k] = resets[k] + 1]
    BY <1>2, <1>7
  <1>9. resets' \in [Codes -> 0..(InFlight + 1)]
    BY <1>7, <1>8 DEF IInv, TypeOK
  <1>10. ResetsCounted'
    <2>1. ASSUME NEW j \in Codes PROVE resets'[j] + Cardinality(Redeeming(j)') <= InFlight
      <3>1. CASE j = k
        <4>1. resets'[k] = resets[k] + 1
          BY <1>8 DEF IInv, TypeOK
        <4> QED BY <1>5, <1>6, <3>1, <4>1, Fields
      <3>2. CASE j # k
        <4>1. resets'[j] = resets[j]
          BY <1>8, <3>2 DEF IInv, TypeOK
        <4> QED BY <1>5, <4>1, Fields
      <3> QED BY <3>1, <3>2
    <2> QED BY <2>1 DEF ResetsCounted
  <1>11. texted' \subseteq Codes /\ forgotten' \in BOOLEAN
    BY <1>2 DEF IInv, TypeOK
  <1> QED BY <1>2, <1>3, <1>9, <1>10, <1>11, ClearedTyped, Writing

\* Time passes, and the owner forgets.
LEMMA Waiting ==
    ASSUME ResetAssumption, IInv, Tick \/ Forget \/ UNCHANGED vars
    PROVE  IInv' /\ [Once!Next]_(Once!vars)
  <1>1. UNCHANGED <<req, texted, guesses, resets, restarts>> /\ forgotten' \in BOOLEAN
    BY Fields DEF Tick, Forget, vars, history, TypeOK
  <1>2. acct' \in Account /\ acct'.code = acct.code /\ acct'.attempts = acct.attempts
    <2>1. CASE UNCHANGED acct
      BY <2>1, Fields
    <2>2. CASE Tick
      <3> DEFINE age == IF acct.code = NoCode THEN 0 ELSE Capped(acct.codeAge, CodeTtl + 1)
                 since == Capped(acct.sinceRequest, Cooldown)
      <3>1. CodeTtl + 1 \in Nat /\ Cooldown \in Nat /\ 0 \in 0..(CodeTtl + 1)
        BY DEF ResetAssumption
      <3>2. acct.codeAge \in 0..(CodeTtl + 1) /\ acct.sinceRequest \in 0..Cooldown
        BY Fields DEF Account
      <3>3. Capped(acct.codeAge, CodeTtl + 1) \in 0..(CodeTtl + 1)
        BY <3>1, <3>2, CappedTyped
      <3>4. age \in 0..(CodeTtl + 1) /\ since \in 0..Cooldown
        BY <3>1, <3>2, <3>3, CappedTyped
      <3>5. acct' = [acct EXCEPT !.codeAge = age, !.sinceRequest = since]
        BY <2>2 DEF Tick
      <3> HIDE DEF age, since
      <3> QED BY <3>4, <3>5, Fields DEF Account
    <2> QED BY <2>1, <2>2 DEF Forget, vars
  <1>3. TypeOK'
    BY <1>1, <1>2, Fields DEF TypeOK
  <1>4. Missing' = Missing /\ \A k \in Codes : Redeeming(k)' = Redeeming(k)
    BY <1>1 DEF Missing, Redeeming, At
  <1>5. Counting'
    BY <1>1, <1>2, <1>4 DEF IInv, Counting, AttemptsBounded, GuessesCounted
  <1>6. Spending'
    BY <1>1, <1>2, <1>4 DEF IInv, Spending, CurrentUnspent, ResetsCounted, RedeemsCode, At
  <1>7. UNCHANGED Once!vars
    BY <1>1, <1>2 DEF Once!vars
  <1> QED BY <1>3, <1>5, <1>6, <1>7 DEF IInv

\* A crash: what was guessed and not counted yet is lost, once for each request.
LEMMA Crashing ==
    ASSUME ResetAssumption, IInv, Restart
    PROVE  IInv' /\ [Once!Next]_(Once!vars)
  <1>1. /\ UNCHANGED <<acct, texted, guesses, resets, forgotten>> /\ restarts' = restarts + 1
        /\ req' = [r \in Requests |-> Idle]
    BY DEF Restart
  <1>2. restarts' \in 0..MaxRestarts
    BY <1>1, Fields DEF Restart, ResetAssumption
  <1>3. TypeOK'
    BY <1>1, <1>2, IdleTyped, Fields DEF TypeOK
  <1>4. Missing' = {} /\ \A k \in Codes : Redeeming(k)' = {}
    BY <1>1, IdleTyped DEF Missing, Redeeming, At
  <1>5. Cardinality(Missing') = 0 /\ \A k \in Codes : Cardinality(Redeeming(k)') = 0
    BY <1>4, FS_EmptySet
  <1>6. Cardinality(Missing) \in Nat /\ Cardinality(Missing) <= InFlight
    BY SetsOfRequests DEF Missing
  <1>7. AttemptsBounded'
    BY <1>1, <1>5, <1>6, Fields DEF IInv, Counting, AttemptsBounded
  <1>8. GuessesCounted'
    <2> SUFFICES ASSUME acct.code # NoCode
                 PROVE  guesses[acct.code] <= acct.attempts + 0 + InFlight * (restarts + 1)
      BY <1>1, <1>5 DEF GuessesCounted
    <2>1. guesses[acct.code] <= acct.attempts + Cardinality(Missing) + InFlight * restarts
      BY DEF IInv, Counting, GuessesCounted
    <2> QED BY <1>6, <2>1, Fields
  <1>9. ResetsCounted'
    <2>1. ASSUME NEW k \in Codes PROVE resets[k] + 0 <= InFlight
      <3>1. resets[k] + Cardinality(Redeeming(k)) <= InFlight
        BY DEF IInv, Spending, ResetsCounted
      <3>2. Cardinality(Redeeming(k)) \in Nat
        BY SetsOfRequests DEF Redeeming
      <3> QED BY <3>1, <3>2, Fields
    <2> QED BY <1>1, <1>5, <2>1 DEF ResetsCounted
  <1>10. CurrentUnspent' /\ RedeemsCode'
    BY <1>1, IdleTyped DEF IInv, Spending, CurrentUnspent, RedeemsCode, At
  <1>11. Once!Crash
    BY <1>1 DEF Once!Crash
  <1> QED BY <1>3, <1>7, <1>8, <1>9, <1>10, <1>11 DEF IInv, Counting, Spending, Once!Next

------------------------------------------------------------------------------

LEMMA StepImplements ==
    ASSUME ResetAssumption, IInv, [Next]_vars
    PROVE  IInv' /\ [Once!Next]_(Once!vars)
  <1>1. ASSUME NEW r \in Requests,
               \/ RequestPasswordReset(r) \/ AssertMaySend(r)
               \/ TextDelivered(r) \/ TextFailed(r)
        PROVE  IInv' /\ [Once!Next]_(Once!vars)
    <2>1. ~At(r, "miss")
      BY <1>1 DEF RequestPasswordReset, AssertMaySend, TextDelivered, TextFailed, At
    <2> QED BY <1>1, <2>1, Turning
  <1>2. ASSUME NEW r \in Requests, Serve(r) PROVE IInv' /\ [Once!Next]_(Once!vars)
    BY <1>1, <1>2, Storing, CountingMiss, Redeems, Burning DEF Serve
  <1>3. ASSUME NEW r \in Requests, GuessRight(r) \/ GuessWrong(r)
        PROVE  IInv' /\ [Once!Next]_(Once!vars)
    BY <1>3, Guessing, GuessingRight
  <1> QED BY <1>1, <1>2, <1>3, Waiting, Crashing DEF Next

LEMMA InitImplements ==
    ASSUME ResetAssumption, Init
    PROVE  IInv /\ Once!Init
  <1>1. TypeOK
    <2>1. acct \in Account
      BY Numbers DEF Init, Account, ResetAssumption
    <2> QED BY <2>1, IdleTyped, Numbers DEF Init, TypeOK, ResetAssumption
  <1>2. Missing = {} /\ \A k \in Codes : Redeeming(k) = {}
    BY IdleTyped DEF Init, Missing, Redeeming, At
  <1>3. Cardinality(Missing) = 0 /\ \A k \in Codes : Cardinality(Redeeming(k)) = 0
    BY <1>2, FS_EmptySet
  <1>4. Counting
    BY <1>3, Numbers DEF Init, Counting, AttemptsBounded, GuessesCounted, ResetAssumption
  <1>5. Spending
    <2>1. ResetsCounted
      BY <1>3, Numbers DEF Init, ResetsCounted
    <2>2. CurrentUnspent
      BY DEF Init, CurrentUnspent
    <2>3. RedeemsCode
      BY IdleTyped DEF Init, RedeemsCode, At
    <2> QED BY <2>1, <2>2, <2>3 DEF Spending
  <1> QED BY <1>1, <1>4, <1>5 DEF IInv, Init, Once!Init

\* The columns, the requests and the histories keep their types.
THEOREM ResetTyped ==
    ASSUME ResetAssumption
    PROVE  Spec => []TypeOK
  <1>1. IInv /\ [Next]_vars => IInv'
    BY StepImplements
  <1>2. Init => IInv
    BY InitImplements
  <1>3. IInv => TypeOK
    BY DEF IInv
  <1> QED BY <1>1, <1>2, <1>3, PTL DEF Spec

\* Each write to the row issues a new code, counts a wrong guess or clears the
\* code, though the code is stored before it is texted and cleared twice.
THEOREM ResetCodeTheorem ==
    ASSUME ResetAssumption
    PROVE  Spec => ResetCodeIsOneTime
  <1>1. IInv /\ [Next]_vars => IInv' /\ [Once!Next]_(Once!vars)
    BY StepImplements
  <1>2. Init => IInv /\ Once!Init
    BY InitImplements
  <1> QED BY <1>1, <1>2, PTL DEF Spec, ResetCodeIsOneTime, Once!Spec

\* A code changes the password at most as often as there are requests: those
\* that had read it before the first of them wrote.  A crash between the two
\* writes of a reset does not add to them.
THEOREM ReplaysTheorem ==
    ASSUME ResetAssumption
    PROVE  Spec => []ReplaysOnlyInFlight
  <1>1. IInv /\ [Next]_vars => IInv'
    BY StepImplements
  <1>2. Init => IInv
    BY InitImplements
  <1>3. IInv => ReplaysOnlyInFlight
    <2> SUFFICES ASSUME IInv, NEW k \in Codes PROVE resets[k] <= InFlight
      BY DEF ReplaysOnlyInFlight
    <2>1. resets[k] + Cardinality(Redeeming(k)) <= InFlight
      BY DEF IInv, Spending, ResetsCounted
    <2>2. Cardinality(Redeeming(k)) \in Nat
      BY SetsOfRequests DEF Redeeming
    <2> QED BY <2>1, <2>2, Fields
  <1> QED BY <1>1, <1>2, <1>3, PTL DEF Spec
==============================================================================
