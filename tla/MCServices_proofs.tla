-------------------------- MODULE MCServices_proofs --------------------------
(***************************************************************************)
(* The services around the tutor keep their promises: accounts, limiters,  *)
(* locks, calls of language models, retrieval, the word list, the memory,  *)
(* settings, readings, the knowledge base and the rules that compute what  *)
(* a learner gets, side by side as MCServices has them, for every value of *)
(* the constants. Each section has a component's inductive invariant, that *)
(* its steps keep it, and the theorem about the services that follows; the *)
(* section on the rules has what each of them gives for every input.       *)
(***************************************************************************)
EXTENDS MCServices, FiniteSetTheorems, WellFoundedInduction, TLAPS

MemP == INSTANCE LearnerMemory_proofs

servicesVars == <<part, frontVars, backVars, contentVars>>

\* A step of the services is one of a component, or leaves it alone.
LEMMA StepOrStutter ==
    ASSUME [ServicesNext]_servicesVars
    PROVE  /\ [Accounts!Next]_accountVars /\ [Limiter!Next]_limitVars /\ [JobLock!Next]_lockVars
           /\ [Llm!Next]_llmVars /\ [Retrieval!Next]_retrievalVars /\ [Dutch!Next]_wordsVars
           /\ [Memory!Next]_memoryVars /\ [Settings!Next]_settingsVars
           /\ [Reading!Next]_readingVars /\ [Knowledge!Next]_knowledgeVars
  BY DEF servicesVars, frontVars, backVars, contentVars, ServicesNext, AccountStep, LimitStep, LockStep, CallStep,
         SettingsStep, RetrievalStep, WordsStep, MemoryStep, ReadingStep, KnowledgeStep

\* The cardinalities of the components are those of the library.
LEMMA Counts ==
    ASSUME NEW S
    PROVE  /\ Accounts!Cardinality(S) = Cardinality(S) /\ Limiter!Cardinality(S) = Cardinality(S)
           /\ Llm!Cardinality(S) = Cardinality(S)
  BY DEF Accounts!Cardinality, Limiter!Cardinality, Llm!Cardinality, Cardinality,
         Accounts!IsFiniteSet, Limiter!IsFiniteSet, Llm!IsFiniteSet, IsFiniteSet

\* There are finitely many requests.
LEMMA VisitsAreFinite == IsFiniteSet(Visit)
  BY ServicesAssumption DEF Limiter!LimitAssumption, Limiter!IsFiniteSet, IsFiniteSet

----------------------------------------------------------------------------
\* Accounts.
LEMMA AccountsAssumed == Accounts!AccountsAssumption
  BY ServicesAssumption

\* A set without two elements has at most one.
LEMMA AtMostOne ==
    ASSUME NEW S, \A x, y \in S : x = y
    PROVE  Cardinality(S) <= 1
<1>1. CASE S = {}
  BY <1>1, FS_EmptySet
<1>2. CASE S # {}
  <2>1. PICK x \in S : TRUE
    BY <1>2
  <2>2. S = {x}
    BY <2>1
  <2>3. QED
    BY <2>2, FS_Singleton
<1>3. QED
  BY <1>1, <1>2

Past == {"select", "insert", "commit", "reselect", "delete", "end", "token", "taken", "error", "deleted"}
\* Only the transaction that is about to commit has inserted a row, and only
\* of an email without one; a row is there before anyone is told of it.
Rows ==
    /\ \A e \in Email : inserted[e] # Nobody => users[e] = "none"
    /\ \A r \in Visit : visit[r].pc = "commit" <=> inserted[visit[r].email] = r
    /\ \A e \in Email, r \in Visit : inserted[e] = r => visit[r].email = e
    /\ \A r \in Visit :
         /\ visit[r].pc \in {"token", "taken", "deleted", "delete"} => users[visit[r].email] # "none"
         /\ visit[r].made => visit[r].pc = "token"
    /\ \A r, q \in Visit :
         visit[r].made /\ visit[q].made /\ visit[r].email = visit[q].email => r = q
\* A state that lets a callback through is used, and one that was never made
\* is known to nobody.
Uses ==
    /\ \A s \in State : states[s] = "none" => s \notin browser /\ \A r \in Visit : visit[r].state # s
    /\ \A r \in Visit : visit[r].pc \in {"new", "take"} \/ visit[r].state = Nobody
                          \/ visit[r].pc = "refused" \/ states[visit[r].state] = "used"
    /\ \A r, q \in Visit :
         (/\ visit[r].state \in State /\ visit[r].state = visit[q].state
          /\ visit[r].pc \notin {"take", "refused"} /\ visit[q].pc \notin {"take", "refused"})
            => r = q
    /\ \A r \in Visit : visit[r].pc = "new" => visit[r].state = Nobody
    /\ \A r \in Visit : visit[r].pc = "take" => visit[r].state \in State
AccInv == Accounts!TypeOK /\ Rows /\ Uses

\* Accounts and requests start with their types,
LEMMA TypeInitially == Accounts!Init => Accounts!TypeOK
  BY AccountsAssumed DEF Accounts!AccountsAssumption, Accounts!Init, Accounts!TypeOK

\* What an arriving request is about.
LEMMA ArriveSets ==
    ASSUME Accounts!TypeOK, NEW r \in Visit, Accounts!Arrive(r)
    PROVE  /\ visit' \in [Visit ->
                    [pc : {"new", "take", "ask", "select", "insert", "commit", "reselect", "delete", "end"} \cup Accounts!Outcomes,
                     kind : {"signup", "login", "google", "account"}, email : Email,
                     state : State \cup {Nobody}, made : BOOLEAN]]
           /\ visit[r].pc = "new" /\ UNCHANGED <<users, inserted, states, browser>>
           /\ \A q \in Visit \ {r} : visit'[q] = visit[q]
           /\ visit'[r].made = visit[r].made
           /\ \/ visit'[r].pc = "take" /\ visit'[r].state \in browser
              \/ visit'[r].pc = "select" /\ visit'[r].state = Nobody
<1>1. PICK k \in {"signup", "login", "google", "account"} : \E e \in Email :
          \E s \in (IF k = "google" THEN browser ELSE {Nobody}) :
            visit' = [visit EXCEPT ![r] = [@ EXCEPT !.kind = k, !.email = e, !.state = s,
                                             !.pc = IF k = "google" THEN "take" ELSE "select"]]
  BY DEF Accounts!Arrive
<1>2. PICK e \in Email : \E s \in (IF k = "google" THEN browser ELSE {Nobody}) :
            visit' = [visit EXCEPT ![r] = [@ EXCEPT !.kind = k, !.email = e, !.state = s,
                                             !.pc = IF k = "google" THEN "take" ELSE "select"]]
  BY <1>1
<1>3. PICK s \in (IF k = "google" THEN browser ELSE {Nobody}) :
            visit' = [visit EXCEPT ![r] = [visit[r] EXCEPT !.kind = k, !.email = e, !.state = s,
                                             !.pc = IF k = "google" THEN "take" ELSE "select"]]
  BY <1>2
<1>4. [visit[r] EXCEPT !.kind = k, !.email = e, !.state = s, !.pc = IF k = "google" THEN "take" ELSE "select"]
        \in [pc : {"new", "take", "ask", "select", "insert", "commit", "reselect", "delete", "end"} \cup Accounts!Outcomes,
             kind : {"signup", "login", "google", "account"}, email : Email,
             state : State \cup {Nobody}, made : BOOLEAN]
  BY ZenonT(40) DEF Accounts!TypeOK, Accounts!Outcomes
<1>5. QED
  BY <1>3, <1>4 DEF Accounts!TypeOK, Accounts!Arrive

\* and keep them.
LEMMA AccountTypeStep == Accounts!TypeOK /\ [Accounts!Next]_accountVars => Accounts!TypeOK'
<1> SUFFICES ASSUME Accounts!TypeOK, [Accounts!Next]_accountVars PROVE Accounts!TypeOK'
  OBVIOUS
<1> USE AccountsAssumed DEF Accounts!AccountsAssumption, Accounts!TypeOK, Accounts!Goes, Accounts!Outcomes
<1>1. CASE UNCHANGED accountVars
  BY <1>1 DEF accountVars
<1>2. ASSUME NEW s \in State, Accounts!GoogleLogin(s) PROVE Accounts!TypeOK'
  BY <1>2 DEF Accounts!GoogleLogin
<1>3. ASSUME NEW s \in State, Accounts!LoseState(s) PROVE Accounts!TypeOK'
  BY <1>3 DEF Accounts!LoseState
<1>4. ASSUME NEW r \in Visit, Accounts!Arrive(r) PROVE Accounts!TypeOK'
  BY <1>4, ArriveSets
<1>5. ASSUME NEW r \in Visit, Accounts!TakeState(r) PROVE Accounts!TypeOK'
  BY <1>5 DEF Accounts!TakeState
<1>6. ASSUME NEW r \in Visit, Accounts!AskGoogle(r) PROVE Accounts!TypeOK'
  BY <1>6 DEF Accounts!AskGoogle
<1>7. ASSUME NEW r \in Visit, Accounts!Select(r) PROVE Accounts!TypeOK'
  BY <1>7 DEF Accounts!Select
<1>8. ASSUME NEW r \in Visit, Accounts!Insert(r) PROVE Accounts!TypeOK'
  BY <1>8 DEF Accounts!Insert
<1>9. ASSUME NEW r \in Visit, Accounts!CommitInsert(r) PROVE Accounts!TypeOK'
  BY <1>9 DEF Accounts!CommitInsert
<1>10. ASSUME NEW r \in Visit, Accounts!Reselect(r) PROVE Accounts!TypeOK'
  BY SMTT(30), <1>10 DEF Accounts!Reselect
<1>11. ASSUME NEW r \in Visit, Accounts!DeleteAccount(r) PROVE Accounts!TypeOK'
  <2>1. users' \in [Email -> {"none", "live", "deleted"}]
    BY <1>11 DEF Accounts!DeleteAccount
  <2>2. visit' = [visit EXCEPT ![r].pc = "deleted"] \/ visit' = [visit EXCEPT ![r].pc = "error"]
    BY <1>11 DEF Accounts!DeleteAccount
  <2>3. UNCHANGED <<inserted, states, browser>>
    BY <1>11 DEF Accounts!DeleteAccount
  <2>4. QED
    BY <2>1, <2>2, <2>3
<1>12. QED
  BY <1>1, <1>2, <1>3, <1>4, <1>5, <1>6, <1>7, <1>8, <1>9, <1>10, <1>11 DEF Accounts!Next

\* An email keeps at most one row, whoever inserts at once.
LEMMA RowsStep == Accounts!TypeOK /\ Rows /\ [Accounts!Next]_accountVars => Rows'
<1> SUFFICES ASSUME Accounts!TypeOK, Rows, [Accounts!Next]_accountVars PROVE Rows'
  OBVIOUS
<1> USE AccountsAssumed DEF Accounts!AccountsAssumption, Accounts!TypeOK, Accounts!Goes, Accounts!Outcomes
<1>1. CASE UNCHANGED accountVars
  BY <1>1 DEF accountVars, Rows
<1>2. ASSUME NEW s \in State, Accounts!GoogleLogin(s) PROVE Rows'
  BY <1>2 DEF Accounts!GoogleLogin, Rows
<1>3. ASSUME NEW s \in State, Accounts!LoseState(s) PROVE Rows'
  BY <1>3 DEF Accounts!LoseState, Rows
<1>4. ASSUME NEW r \in Visit, Accounts!Arrive(r) PROVE Rows'
  BY SMTT(30), <1>4, ArriveSets DEF Rows
<1>5. ASSUME NEW r \in Visit, Accounts!TakeState(r) PROVE Rows'
  BY SMTT(30), <1>5 DEF Accounts!TakeState, Rows
<1>6. ASSUME NEW r \in Visit, Accounts!AskGoogle(r) PROVE Rows'
  BY <1>6 DEF Accounts!AskGoogle, Rows
<1>7. ASSUME NEW r \in Visit, Accounts!Select(r) PROVE Rows'
  BY <1>7 DEF Accounts!Select, Rows
<1>8. ASSUME NEW r \in Visit, Accounts!Insert(r) PROVE Rows'
  BY <1>8 DEF Accounts!Insert, Rows
<1>9. ASSUME NEW r \in Visit, Accounts!CommitInsert(r) PROVE Rows'
  BY <1>9 DEF Accounts!CommitInsert, Rows
<1>10. ASSUME NEW r \in Visit, Accounts!Reselect(r) PROVE Rows'
  BY <1>10 DEF Accounts!Reselect, Rows
<1>11. ASSUME NEW r \in Visit, Accounts!DeleteAccount(r) PROVE Rows'
  BY <1>11 DEF Accounts!DeleteAccount, Rows
<1>12. QED
  BY <1>1, <1>2, <1>3, <1>4, <1>5, <1>6, <1>7, <1>8, <1>9, <1>10, <1>11 DEF Accounts!Next

\* A request past the state it presented keeps to what is used.
LEMMA MovesOn ==
    ASSUME Accounts!TypeOK, Uses, NEW r \in Visit, UNCHANGED <<states, browser>>,
           \A q \in Visit \ {r} : visit'[q] = visit[q],
           visit'[r].state = visit[r].state, visit[r].pc \notin {"new", "take", "refused"},
           visit'[r].pc \notin {"new", "take"}
    PROVE  Uses'
  BY DEF Uses

\* A state lets one callback through, whoever takes it at once.
LEMMA UsesStep == Accounts!TypeOK /\ Uses /\ [Accounts!Next]_accountVars => Uses'
<1> SUFFICES ASSUME Accounts!TypeOK, Uses, [Accounts!Next]_accountVars PROVE Uses'
  OBVIOUS
<1> USE AccountsAssumed DEF Accounts!AccountsAssumption, Accounts!TypeOK, Accounts!Goes, Accounts!Outcomes
<1>1. CASE UNCHANGED accountVars
  BY <1>1 DEF accountVars, Uses
<1>2. ASSUME NEW s \in State, Accounts!GoogleLogin(s) PROVE Uses'
  BY <1>2 DEF Accounts!GoogleLogin, Uses
<1>3. ASSUME NEW s \in State, Accounts!LoseState(s) PROVE Uses'
  BY <1>3 DEF Accounts!LoseState, Uses
<1>4. ASSUME NEW r \in Visit, Accounts!Arrive(r) PROVE Uses'
  <2> USE ArriveSets, <1>4
  <2>1. \A s \in State : states'[s] = "none" => s \notin browser' /\ \A q \in Visit : visit'[q].state # s
    BY DEF Uses
  <2>2. visit'[r].pc = "take" \/ visit'[r].state = Nobody
    OBVIOUS
  <2>3. \A q \in Visit : visit'[q].pc \in {"new", "take"} \/ visit'[q].state = Nobody
                          \/ visit'[q].pc = "refused" \/ states'[visit'[q].state] = "used"
    BY <2>2 DEF Uses
  <2>4. ASSUME NEW q \in Visit, NEW o \in Visit,
               visit'[q].state \in State, visit'[q].state = visit'[o].state,
               visit'[q].pc \notin {"take", "refused"}, visit'[o].pc \notin {"take", "refused"}
        PROVE  q = o
    <3>1. q # r /\ o # r
      BY <2>2, <2>4
    <3>2. QED
      BY <2>4, <3>1 DEF Uses
  <2>5. /\ \A q \in Visit : visit'[q].pc = "new" => visit'[q].state = Nobody
        /\ \A q \in Visit : visit'[q].pc = "take" => visit'[q].state \in State
    BY DEF Uses
  <2>6. QED
    BY <2>1, <2>3, <2>4, <2>5 DEF Uses
<1>5. ASSUME NEW r \in Visit, Accounts!TakeState(r) PROVE Uses'
  BY SMTT(30), <1>5 DEF Accounts!TakeState, Uses
<1>6. ASSUME NEW r \in Visit, Accounts!AskGoogle(r) PROVE Uses'
  BY <1>6, MovesOn DEF Accounts!AskGoogle
<1>7. ASSUME NEW r \in Visit, Accounts!Select(r) PROVE Uses'
  BY <1>7, MovesOn DEF Accounts!Select
<1>8. ASSUME NEW r \in Visit, Accounts!Insert(r) PROVE Uses'
  BY <1>8, MovesOn DEF Accounts!Insert
<1>9. ASSUME NEW r \in Visit, Accounts!CommitInsert(r) PROVE Uses'
  BY <1>9, MovesOn DEF Accounts!CommitInsert
<1>10. ASSUME NEW r \in Visit, Accounts!Reselect(r) PROVE Uses'
  BY <1>10, MovesOn DEF Accounts!Reselect
<1>11. ASSUME NEW r \in Visit, Accounts!DeleteAccount(r) PROVE Uses'
  BY <1>11, MovesOn DEF Accounts!DeleteAccount
<1>12. QED
  BY <1>1, <1>2, <1>3, <1>4, <1>5, <1>6, <1>7, <1>8, <1>9, <1>10, <1>11 DEF Accounts!Next

\* The invariant of the accounts holds initially,
LEMMA AccountInvInitially == Accounts!Init => AccInv
  BY TypeInitially, AccountsAssumed DEF Accounts!AccountsAssumption, Accounts!Init, Accounts!TypeOK, Rows,
     Uses, AccInv
\* every step keeps it,
LEMMA AccountInvStep == AccInv /\ [Accounts!Next]_accountVars => AccInv'
  BY AccountTypeStep, RowsStep, UsesStep DEF AccInv

\* and it implies what SignInsAreSingle says.
LEMMA AccountInvSuffices == AccInv => Accounts!OneAccount /\ Accounts!StateUsedOnce
<1> SUFFICES ASSUME AccInv PROVE Accounts!OneAccount /\ Accounts!StateUsedOnce
  OBVIOUS
<1>1. ASSUME NEW e \in Email
      PROVE Cardinality({r \in Visit : visit[r].email = e /\ visit[r].made}) <= 1
  BY AtMostOne DEF AccInv, Rows
<1>2. ASSUME NEW s \in State
      PROVE Cardinality({r \in Visit : visit[r].state = s /\ visit[r].pc \notin {"take", "refused"}}) <= 1
  BY AtMostOne DEF AccInv, Uses
<1>3. Accounts!OneAccount
  BY <1>1, Counts DEF Accounts!OneAccount, Accounts!Told, AccInv, Rows
<1>4. QED
  BY <1>2, <1>3, Counts DEF Accounts!StateUsedOnce

\* A step leaves a deleted account deleted and gives nobody a token for it.
LEMMA StaysDeleted ==
    ASSUME AccInv, [Accounts!Next]_accountVars, NEW e \in Email, users[e] = "deleted"
    PROVE  /\ users'[e] = "deleted"
           /\ \A r \in Visit : visit[r].email = e /\ visit[r].pc # "token" => visit'[r].pc # "token"
<1> USE AccountsAssumed DEF Accounts!AccountsAssumption, Accounts!TypeOK, Accounts!Goes, Accounts!Outcomes, AccInv
<1> DEFINE G == /\ users'[e] = "deleted"
                /\ \A r \in Visit : visit[r].email = e /\ visit[r].pc # "token" => visit'[r].pc # "token"
<1>1. CASE UNCHANGED <<users, visit>>
  BY <1>1
<1>2. ASSUME NEW s \in State, Accounts!GoogleLogin(s) \/ Accounts!LoseState(s) PROVE G
  BY <1>2, <1>1 DEF Accounts!GoogleLogin, Accounts!LoseState
<1>4. ASSUME NEW r \in Visit, Accounts!Arrive(r) PROVE G
  BY <1>4, ArriveSets DEF Rows
<1>5. ASSUME NEW r \in Visit, Accounts!TakeState(r) PROVE G
  BY <1>5 DEF Accounts!TakeState
<1>6. ASSUME NEW r \in Visit, Accounts!AskGoogle(r) PROVE G
  BY <1>6 DEF Accounts!AskGoogle
<1>7. ASSUME NEW r \in Visit, Accounts!Select(r) PROVE G
  BY <1>7 DEF Accounts!Select
<1>8. ASSUME NEW r \in Visit, Accounts!Insert(r) PROVE G
  BY <1>8 DEF Accounts!Insert
<1>9. ASSUME NEW r \in Visit, Accounts!CommitInsert(r) PROVE G
  BY <1>9 DEF Accounts!CommitInsert, Rows
<1>10. ASSUME NEW r \in Visit, Accounts!Reselect(r) PROVE G
  BY <1>10 DEF Accounts!Reselect
<1>11. ASSUME NEW r \in Visit, Accounts!DeleteAccount(r) PROVE G
  BY <1>11 DEF Accounts!DeleteAccount
<1>12. QED
  BY <1>1, <1>2, <1>4, <1>5, <1>6, <1>7, <1>8, <1>9, <1>10, <1>11 DEF Accounts!Next, accountVars

\* One account of an email, whoever signs up at once, and an OAuth state lets
\* one callback through (signup, google_callback, google_oauth_state_take).
THEOREM SignInsAreSingleHolds == ServicesSpec => []SignInsAreSingle
<1>1. ServicesInit => AccInv
  BY AccountInvInitially DEF ServicesInit
<1>2. AccInv /\ [ServicesNext]_servicesVars => AccInv'
  BY AccountInvStep, StepOrStutter
<1>3. AccInv => SignInsAreSingle
  BY AccountInvSuffices DEF SignInsAreSingle
<1>4. QED
  BY <1>1, <1>2, <1>3, PTL DEF ServicesSpec, servicesVars

\* What DeletedStays says of a step.
DeletedStep ==
    \A e \in Email : users[e] = "deleted" =>
        /\ users'[e] = "deleted"
        /\ \A r \in Visit : visit[r].email = e /\ visit[r].pc # "token" => visit'[r].pc # "token"

\* An account that is deleted stays deleted, and no request is given a token
\* for it (delete_account, get_current_user).
THEOREM DeletedStaysHolds == ServicesSpec => DeletedStays
<1>1. ServicesInit => AccInv
  BY AccountInvInitially DEF ServicesInit
<1>2. AccInv /\ [ServicesNext]_servicesVars => AccInv'
  BY AccountInvStep, StepOrStutter
<1>3. AccInv /\ [ServicesNext]_servicesVars => [DeletedStep]_(Accounts!accountVars)
  BY StaysDeleted, StepOrStutter DEF DeletedStep, Accounts!accountVars, accountVars
<1>4. QED
  BY <1>1, <1>2, <1>3, PTL DEF ServicesSpec, servicesVars, DeletedStays, Accounts!DeletedStays, DeletedStep

----------------------------------------------------------------------------
\* Limiters.
LEMMA LimitAssumed == Limiter!LimitAssumption
  BY ServicesAssumption

\* A set of numbers has a least one.
LEMMA Least == \A T \in SUBSET Nat : T # {} => \E x \in T : \A y \in T : x <= y
<1> DEFINE Below == OpToRel(<, Nat)
<1>1. ASSUME NEW T \in SUBSET Nat, T # {}
      PROVE  \E x \in T : \A y \in T : ~ (<<y, x>> \in Below)
  BY <1>1, WFMin, NatLessThanWellFounded
<1>2. \A x, y \in Nat : <<y, x>> \in Below <=> y < x
  BY DEF OpToRel
<1> HIDE DEF Below
<1>3. ASSUME NEW T \in SUBSET Nat, T # {}
      PROVE  \E x \in T : \A y \in T : x <= y
  <2>1. PICK x \in T : \A y \in T : ~ (<<y, x>> \in Below)
    BY <1>1, <1>3
  <2>2. ASSUME NEW y \in T PROVE x <= y
    <3>1. x \in Nat /\ y \in Nat
      BY <1>3
    <3>2. ~ (y < x)
      BY <1>2, <2>1, <3>1
    <3>3. QED
      BY <3>1, <3>2
  <2>3. QED
    BY <2>2
<1>4. QED
  BY <1>3
\* A set no three elements of which have the same number has at most two for
\* each number.
LEMMA TwoOfEach ==
    ASSUME NEW S, IsFiniteSet(S), NEW n \in Nat, NEW f \in [S -> 1..n],
           \A x, y, z \in S : f[x] = f[y] /\ f[y] = f[z] => x = y \/ y = z \/ x = z
    PROVE  Cardinality(S) <= 2 * n
<1> DEFINE one(x) == CHOOSE y \in S : f[y] = f[x]
           A == {x \in S : one(x) = x}
           B == S \ A
<1>1. \A x \in S : one(x) \in A /\ f[one(x)] = f[x]
  <2>1. \A x \in S : one(x) \in S /\ f[one(x)] = f[x]
    OBVIOUS
  <2>2. \A x, y \in S : f[x] = f[y] => one(x) = one(y)
    OBVIOUS
  <2> HIDE DEF one
  <2>3. QED
    BY <2>1, <2>2
<1> HIDE DEF one
<1>2. \A x, y \in A : f[x] = f[y] => x = y
  <2>1. \A x, y \in S : f[x] = f[y] => one(x) = one(y)
    BY DEF one
  <2>2. QED
    BY <2>1
<1>3. \A x, y \in B : f[x] = f[y] => x = y
  <2>1. SUFFICES ASSUME NEW x \in B, NEW y \in B, f[x] = f[y] PROVE x = y
    OBVIOUS
  <2>2. one(x) \in A /\ f[one(x)] = f[x]
    BY <1>1
  <2>3. one(x) # x /\ one(x) # y
    BY <2>2
  <2>4. QED
    BY <2>1, <2>2, <2>3
<1>4. IsFiniteSet(A) /\ IsFiniteSet(B) /\ IsFiniteSet(1..n) /\ Cardinality(1..n) = n
  <2>1. A \in SUBSET S /\ B \in SUBSET S
    OBVIOUS
  <2>2. IsFiniteSet(1..n) /\ Cardinality(1..n) = n
    BY FS_Interval
  <2>3. QED
    BY <2>1, <2>2, FS_Subset
<1>5. ASSUME NEW C \in SUBSET S, \A x, y \in C : f[x] = f[y] => x = y PROVE Cardinality(C) <= n
  <2>1. [x \in C |-> f[x]] \in Injection(C, 1..n)
    BY <1>5 DEF Injection, IsInjective
  <2>2. QED
    BY <1>4, <2>1, FS_Injection
<1>6. Cardinality(A) <= n /\ Cardinality(B) <= n
  BY <1>2, <1>3, <1>5
<1>7. A \cup B = S /\ A \cap B = {}
  OBVIOUS
<1>8. Cardinality(S) = Cardinality(A) + Cardinality(B) - 0
  BY <1>4, <1>7, FS_Union, FS_EmptySet
<1>9. Cardinality(A) \in Nat /\ Cardinality(B) \in Nat
  BY <1>4, FS_CardinalityType
<1>10. QED
  BY <1>6, <1>8, <1>9

Prefix(w, n) ==
    /\ \A i \in 1..n : buckets[w][i] + Window <= now
    /\ n < Len(buckets[w]) => buckets[w][n + 1] + Window > now
\* What is left of a bucket: a suffix, without a time of the window before it.
LEMMA RecentIs ==
    ASSUME NEW w \in Worker, buckets \in [Worker -> Seq(Nat)], now \in Nat
    PROVE  \E n \in 0..Len(buckets[w]) :
              /\ \A i \in 1..n : buckets[w][i] + Window <= now
              /\ Limiter!Recent(w) = SubSeq(buckets[w], n + 1, Len(buckets[w]))
<1> USE LimitAssumed DEF Limiter!LimitAssumption
<1> DEFINE b == buckets[w]
           young == {i \in 1..Len(b) : b[i] + Window > now}
<1>1. b \in Seq(Nat) /\ Len(b) \in Nat /\ \A i \in 1..Len(b) : b[i] \in Nat
  OBVIOUS
<1>2. \E n \in 0..Len(b) : Prefix(w, n)
  <2>1. CASE young = {}
    <3>1. ASSUME NEW i \in 1..Len(b) PROVE b[i] + Window <= now
      <4>1. i \notin young /\ b[i] \in Nat
        BY <1>1, <2>1
      <4>2. ~ (b[i] + Window > now)
        BY <4>1
      <4>3. QED
        BY <4>1, <4>2
    <3>2. Prefix(w, Len(b))
      BY <1>1, <3>1 DEF Prefix
    <3>3. QED
      BY <1>1, <3>2
  <2>2. CASE young # {}
    <3>1. young \in SUBSET Nat
      BY <1>1
    <3>2. PICK m \in young : \A y \in young : m <= y
      BY <2>2, <3>1, Least
    <3>3. m \in 1..Len(b) /\ b[m] + Window > now
      BY <3>2
    <3>4. \A i \in 1..(m - 1) : b[i] + Window <= now
      <4>1. ASSUME NEW i \in 1..(m - 1), ~(b[i] + Window <= now) PROVE FALSE
        <5>1. i \in 1..Len(b) /\ i < m
          BY <1>1, <3>3
        <5>2. i \in young
          BY <1>1, <4>1, <5>1
        <5>3. QED
          BY <3>2, <3>3, <5>1, <5>2
      <4>2. QED
        BY <4>1
    <3>5. m - 1 \in 0..Len(b) /\ (m - 1) + 1 = m
      BY <1>1, <3>3
    <3>6. Prefix(w, m - 1)
      BY <3>3, <3>4, <3>5 DEF Prefix
    <3>7. QED
      BY <3>5, <3>6
  <2>3. QED
    BY <2>1, <2>2
<1> DEFINE old == CHOOSE n \in 0..Len(b) : Prefix(w, n)
<1>3. old \in 0..Len(b) /\ Prefix(w, old)
  BY <1>2
<1>4. Limiter!Recent(w) = SubSeq(b, old + 1, Len(b))
  BY DEF Limiter!Recent, Prefix
<1> HIDE DEF old
<1>5. QED
  BY <1>3, <1>4 DEF Prefix

Asks == [pc : {"new", "expire", "check", "ttl", "passed", "refused"}, on : Worker, at : Nat, count : Nat,
         by : {"nothing", "redis", "memory"}]
LimitTyped ==
    /\ now \in Nat /\ counter \in [count : Nat, until : Nat]
    /\ buckets \in [Worker -> Seq(Nat)] /\ asked \in [Visit -> Asks] /\ failed \in Nat
    /\ \A r \in Visit : asked[r].at <= now

(* The limiter in memory.                                                  *)
Let(w, from) == {r \in Visit : asked[r].pc = "passed" /\ asked[r].by = "memory" /\ asked[r].on = w /\ asked[r].at >= from}
\* What a worker has let through and is still in the window stands in its
\* bucket, behind whatever is older.
Noted(w) ==
    /\ Len(buckets[w]) <= Limit
    /\ \A i \in 1..Len(buckets[w]) : buckets[w][i] <= now
    /\ \A from \in Nat : \A k \in 0..Len(buckets[w]) :
         from + Window > now /\ (\A i \in 1..k : buckets[w][i] < from)
           => Cardinality(Let(w, from)) <= Len(buckets[w]) - k
MemoryBound == \A w \in Worker, from \in Nat : Cardinality(Limiter!Passed("memory", {w}, from)) <= Limit
MemoryInv == (\A w \in Worker : Noted(w)) /\ MemoryBound

(* The counter in Redis.                                                   *)
Counted == {r \in Visit : asked[r].count > 0 /\ asked[r].by # "memory"}
\* The counts since the key last expired, at "start", are all different; of
\* two equal ones before it one is a window older; three are never of one window.
Epoch(start) ==
    /\ start \in Nat /\ start <= now
    /\ counter.until # 0 => counter.until >= start + Window /\ counter.until > now
    /\ \A r \in Counted :
         /\ asked[r].at <= now
         /\ asked[r].at >= start => asked[r].count <= counter.count
    /\ \A r, q \in Counted :
         r # q /\ asked[r].count = asked[q].count =>
             \/ asked[r].at < start /\ asked[q].at >= start
             \/ asked[q].at < start /\ asked[r].at >= start
             \/ /\ asked[r].at < start /\ asked[q].at < start
                /\ asked[r].at + Window <= start \/ asked[q].at + Window <= start
Apart ==
    \A r, q, o \in Counted :
        r # q /\ q # o /\ r # o /\ asked[r].count = asked[q].count /\ asked[q].count = asked[o].count =>
            \E x, y \in {r, q, o} : asked[x].at + Window <= asked[y].at
RedisPassed ==
    \A r \in Visit : asked[r].pc = "passed" /\ asked[r].by = "redis" => r \in Counted /\ asked[r].count \in 1..Limit
Checked == \A r \in Visit : /\ asked[r].pc \in {"expire", "check", "ttl"} => asked[r].by = "nothing" /\ r \in Counted
                            /\ asked[r].pc = "new" => asked[r].by = "nothing" /\ asked[r].count = 0
                            /\ asked[r].pc = "passed" => asked[r].by # "nothing"
RedisInv == (\E start \in Nat : Epoch(start)) /\ Apart /\ RedisPassed /\ Checked
RateInv == LimitTyped /\ MemoryInv /\ RedisInv

\* The invariant of the limiters holds initially.
LEMMA LimitInvInitially == Limiter!Init => RateInv
<1> SUFFICES ASSUME Limiter!Init PROVE RateInv
  OBVIOUS
<1> USE LimitAssumed DEF Limiter!LimitAssumption
<1>1. asked \in [Visit -> Asks] /\ \A r \in Visit : /\ asked[r].pc = "new" /\ asked[r].count = 0
                                                     /\ asked[r].by = "nothing" /\ asked[r].at = 0
  BY DEF Limiter!Init, Asks
<1>2. buckets \in [Worker -> Seq(Nat)] /\ \A w \in Worker : buckets[w] = <<>> /\ Len(buckets[w]) = 0
  BY DEF Limiter!Init
<1>3. LimitTyped
  BY <1>1, <1>2 DEF Limiter!Init, LimitTyped
<1>4. MemoryInv
  <2>1. \A w \in Worker, from \in Nat : Let(w, from) = {} /\ Limiter!Passed("memory", {w}, from) = {}
    BY <1>1 DEF Let, Limiter!Passed
  <2>2. QED
    <3>1. Cardinality({}) = 0
      BY FS_EmptySet
    <3>2. ASSUME NEW w \in Worker PROVE Noted(w)
      <4>1. ASSUME NEW from \in Nat, NEW k \in 0..Len(buckets[w])
            PROVE  Cardinality(Let(w, from)) <= Len(buckets[w]) - k
        <5>1. Cardinality(Let(w, from)) = 0
          BY <2>1, <3>1, <3>2
        <5>2. k = 0 /\ Len(buckets[w]) = 0
          BY <1>2, <3>2
        <5>3. QED
          BY <5>1, <5>2
      <4>2. QED
        BY <1>2, <3>2, <4>1 DEF Noted
    <3>3. MemoryBound
      <4>1. ASSUME NEW w \in Worker, NEW from \in Nat PROVE Cardinality(Limiter!Passed("memory", {w}, from)) <= Limit
        <5>1. Cardinality(Limiter!Passed("memory", {w}, from)) = 0
          BY <2>1, <3>1
        <5>2. QED
          BY <5>1
      <4>2. QED
        BY <4>1 DEF MemoryBound
    <3>4. QED
      BY <3>2, <3>3 DEF MemoryInv
<1>5. RedisInv
  <2>1. Counted = {}
    BY <1>1 DEF Counted
  <2>2. Epoch(0)
    BY <2>1 DEF Epoch, Limiter!Init
  <2>3. QED
    BY <1>1, <2>1, <2>2 DEF RedisInv, Apart, RedisPassed, Checked
<1>6. QED
  BY <1>3, <1>4, <1>5 DEF RateInv

\* A step that lets nothing through by the memory, and takes nothing from it.
LEMMA MemoryStays ==
    ASSUME LimitTyped, MemoryInv, buckets' = buckets, now' \in Nat, now' >= now,
           \A r \in Visit : \/ asked'[r] = asked[r]
                            \/ /\ ~(asked[r].pc = "passed" /\ asked[r].by = "memory")
                               /\ ~(asked'[r].pc = "passed" /\ asked'[r].by = "memory")
    PROVE  MemoryInv'
<1> USE LimitAssumed DEF Limiter!LimitAssumption
<1>1. \A w \in Worker, from \in Nat : Let(w, from)' = Let(w, from) /\ Limiter!Passed("memory", {w}, from)' = Limiter!Passed("memory", {w}, from)
  BY DEF Let, Limiter!Passed
<1>2. ASSUME NEW w \in Worker PROVE Noted(w)'
  <2>1. Len(buckets[w]) \in Nat /\ \A i \in 1..Len(buckets[w]) : buckets[w][i] \in Nat
    BY DEF LimitTyped
  <2>2. \A i \in 1..Len(buckets[w]) : buckets[w][i] <= now'
    BY <2>1 DEF MemoryInv, Noted, LimitTyped
  <2>3. ASSUME NEW from \in Nat, NEW k \in 0..Len(buckets[w]), from + Window > now', \A i \in 1..k : buckets[w][i] < from
        PROVE  Cardinality(Let(w, from)) <= Len(buckets[w]) - k
    <3>1. from + Window > now
      BY <2>3 DEF LimitTyped
    <3>2. QED
      BY <2>3, <3>1 DEF MemoryInv, Noted
  <2>4. Len(buckets[w]) <= Limit
    BY DEF MemoryInv, Noted
  <2>5. QED
    BY <1>1, <2>2, <2>3, <2>4 DEF Noted
<1>3. MemoryBound'
  BY <1>1 DEF MemoryInv, MemoryBound
<1>4. QED
  BY <1>2, <1>3 DEF MemoryInv

\* What popping the old times leaves of a bucket serves as well.
LEMMA PoppedNotes ==
    ASSUME LimitTyped, NEW w \in Worker, Noted(w)
    PROVE  /\ Limiter!Recent(w) \in Seq(Nat) /\ Len(Limiter!Recent(w)) <= Len(buckets[w])
           /\ \A i \in 1..Len(Limiter!Recent(w)) : Limiter!Recent(w)[i] <= now
           /\ \A from \in Nat : \A k \in 0..Len(Limiter!Recent(w)) :
                from + Window > now /\ (\A i \in 1..k : Limiter!Recent(w)[i] < from)
                  => Cardinality(Let(w, from)) <= Len(Limiter!Recent(w)) - k
<1> USE LimitAssumed DEF Limiter!LimitAssumption
<1> DEFINE b == buckets[w]
<1>1. b \in Seq(Nat) /\ Len(b) \in Nat /\ \A i \in 1..Len(b) : b[i] \in Nat
  BY DEF LimitTyped
<1>2. PICK n \in 0..Len(b) : (\A i \in 1..n : b[i] + Window <= now) /\ Limiter!Recent(w) = SubSeq(b, n + 1, Len(b))
  BY RecentIs DEF LimitTyped
<1>3. /\ Limiter!Recent(w) \in Seq(Nat) /\ Len(Limiter!Recent(w)) = Len(b) - n
      /\ \A i \in 1..(Len(b) - n) : Limiter!Recent(w)[i] = b[n + i] /\ n + i \in 1..Len(b)
  <2>1. n + 1 \in 1..(Len(b) + 1) /\ Len(b) \in 0..Len(b)
    BY <1>1
  <2>2. SubSeq(b, n + 1, Len(b)) \in Seq(Nat)
    <3>1. ASSUME NEW i \in (n + 1)..Len(b) PROVE b[i] \in Nat
      BY <1>1
    <3>2. QED
      BY <1>1, <3>1
  <2>3. Len(SubSeq(b, n + 1, Len(b))) = Len(b) - n
    BY <1>1
  <2>4. \A i \in 1..(Len(b) - n) : SubSeq(b, n + 1, Len(b))[i] = b[n + i] /\ n + i \in 1..Len(b)
    BY <1>1
  <2>5. QED
    BY <1>2, <2>2, <2>3, <2>4
<1>4. \A i \in 1..Len(Limiter!Recent(w)) : Limiter!Recent(w)[i] <= now
  BY <1>3 DEF Noted
<1>5. ASSUME NEW from \in Nat, NEW k \in 0..Len(Limiter!Recent(w)), from + Window > now, \A i \in 1..k : Limiter!Recent(w)[i] < from
      PROVE  Cardinality(Let(w, from)) <= Len(Limiter!Recent(w)) - k
  <2>1. n + k \in 0..Len(b)
    BY <1>1, <1>3
  <2>6. n \in Nat /\ k \in Nat /\ n <= Len(b)
    BY <1>1, <1>3
  <2>2. ASSUME NEW i \in 1..(n + k) PROVE b[i] < from
    <3>1. CASE i <= n
      <4>1. i \in 1..n /\ b[i] \in Nat
        BY <1>1, <2>1, <2>6, <3>1
      <4>2. b[i] + Window <= now
        BY <1>2, <4>1
      <4>3. QED
        <5>1. now \in Nat /\ from \in Nat /\ Window \in Nat
          BY DEF LimitTyped
        <5>2. QED
          BY <1>5, <4>1, <4>2, <5>1
    <3>2. CASE ~(i <= n)
      <4>1. i - n \in 1..k /\ i - n \in 1..(Len(b) - n) /\ n + (i - n) = i
        BY <1>1, <1>3, <2>1, <3>2
      <4>2. Limiter!Recent(w)[i - n] = b[i]
        BY <1>3, <4>1
      <4>3. QED
        BY <1>5, <4>1, <4>2
    <3>3. QED
      BY <3>1, <3>2
  <2>3. Cardinality(Let(w, from)) <= Len(b) - (n + k)
    BY <1>5, <2>1, <2>2 DEF Noted
  <2>4. Len(b) - (n + k) = Len(Limiter!Recent(w)) - k
    BY <1>1, <1>3, <2>1
  <2>5. QED
    BY <2>3, <2>4
<1>6. Len(Limiter!Recent(w)) <= Len(b)
  BY <1>1, <1>3
<1>7. QED
  BY <1>3, <1>4, <1>5, <1>6

\* A bucket in memory admits at most the limit in a window.
LEMMA FallBackMemory ==
    ASSUME LimitTyped, MemoryInv, NEW r \in Visit, Limiter!FallBack(r)
    PROVE  MemoryInv' /\ buckets' \in [Worker -> Seq(Nat)]
<1> USE LimitAssumed DEF Limiter!LimitAssumption
<1>0. PICK w \in Worker : w = asked[r].on
  BY DEF LimitTyped, Asks
<1>1. w \in Worker /\ w = asked[r].on /\ asked[r].pc \in {"new", "expire", "ttl"} /\ now' = now /\ now \in Nat /\ Limit \in Nat /\ Window \in Nat \ {0}
  BY <1>0 DEF Limiter!FallBack, LimitTyped, Asks
<1>2. /\ Limiter!Recent(w) \in Seq(Nat) /\ Len(Limiter!Recent(w)) <= Len(buckets[w])
      /\ \A i \in 1..Len(Limiter!Recent(w)) : Limiter!Recent(w)[i] <= now
      /\ \A from \in Nat : \A k \in 0..Len(Limiter!Recent(w)) :
           from + Window > now /\ (\A i \in 1..k : Limiter!Recent(w)[i] < from)
             => Cardinality(Let(w, from)) <= Len(Limiter!Recent(w)) - k
  BY <1>1, PoppedNotes DEF MemoryInv
<1>3. \A q \in Visit \ {r} : asked'[q] = asked[q]
  BY DEF Limiter!FallBack, LimitTyped
<1>4. \A o \in Worker \ {w} : buckets'[o] = buckets[o]
  BY <1>1 DEF Limiter!FallBack, LimitTyped
<1>5. \A o \in Worker, from \in Nat : IsFiniteSet(Let(o, from)) /\ IsFiniteSet(Limiter!Passed("memory", {o}, from))
  <2>1. \A o \in Worker, from \in Nat : Let(o, from) \in SUBSET Visit /\ Limiter!Passed("memory", {o}, from) \in SUBSET Visit
    BY DEF Let, Limiter!Passed
  <2>2. QED
    BY <2>1, VisitsAreFinite, FS_Subset
<1>6. CASE Len(Limiter!Recent(w)) >= Limit
  <2>1. buckets' = [buckets EXCEPT ![w] = Limiter!Recent(w)] /\ asked' = [asked EXCEPT ![r].pc = "refused"]
    BY <1>1, <1>6 DEF Limiter!FallBack
  <2>2. asked'[r].pc = "refused" /\ buckets'[w] = Limiter!Recent(w) /\ buckets' \in [Worker -> Seq(Nat)]
    BY <1>1, <1>2, <2>1 DEF LimitTyped
  <2>3. \A o \in Worker, from \in Nat : Let(o, from)' = Let(o, from) /\ Limiter!Passed("memory", {o}, from)' = Limiter!Passed("memory", {o}, from)
    BY ZenonT(40), <1>1, <1>3, <2>2 DEF Let, Limiter!Passed
  <2>4. Noted(w)'
    <3>1. Len(Limiter!Recent(w)) <= Limit
      BY <1>1, <1>2 DEF MemoryInv, Noted, LimitTyped
    <3>2. QED
      BY <1>1, <1>2, <2>2, <2>3, <3>1 DEF Noted
  <2>5. \A o \in Worker \ {w} : Noted(o)'
    BY <1>1, <1>4, <2>3 DEF MemoryInv, Noted
  <2>6. MemoryBound'
    BY <2>3 DEF MemoryInv, MemoryBound
  <2>7. QED
    BY <2>2, <2>4, <2>5, <2>6 DEF MemoryInv
<1>7. CASE ~(Len(Limiter!Recent(w)) >= Limit)
  <2> DEFINE l == Len(Limiter!Recent(w))
             b == Append(Limiter!Recent(w), now)
  <2>1. buckets' = [buckets EXCEPT ![w] = b]
        /\ asked' = [asked EXCEPT ![r].pc = "passed", ![r].at = now, ![r].by = "memory"]
    BY <1>1, <1>7 DEF Limiter!FallBack
  <2>2. /\ asked'[r].pc = "passed" /\ asked'[r].at = now /\ asked'[r].by = "memory" /\ asked'[r].on = w
        /\ buckets'[w] = b /\ buckets' \in [Worker -> Seq(Nat)]
    BY <1>1, <1>2, <2>1 DEF LimitTyped, Asks
  <2>3. /\ l \in Nat /\ l < Limit /\ Len(b) = l + 1 /\ b[l + 1] = now
        /\ \A i \in 1..l : b[i] = Limiter!Recent(w)[i]
    BY <1>1, <1>2, <1>7
  <2> HIDE DEF l, b
  <2>4. ASSUME NEW from \in Nat
        PROVE  /\ \A o \in Worker \ {w} : Let(o, from)' = Let(o, from) /\ Limiter!Passed("memory", {o}, from)' = Limiter!Passed("memory", {o}, from)
               /\ from <= now => Cardinality(Let(w, from)') <= Cardinality(Let(w, from)) + 1
               /\ from > now => Let(w, from)' = Let(w, from)
    <3>1. \A o \in Worker \ {w} : Let(o, from)' = Let(o, from) /\ Limiter!Passed("memory", {o}, from)' = Limiter!Passed("memory", {o}, from)
      BY <1>1, <1>3, <2>2 DEF Let, Limiter!Passed
    <3>2. CASE from <= now
      <4>1. Let(w, from)' = Let(w, from) \cup {r} /\ r \notin Let(w, from)
        BY <1>1, <1>3, <2>2, <3>2 DEF Let
      <4>2. QED
        <5>1. Cardinality(Let(w, from) \cup {r}) = Cardinality(Let(w, from)) + 1 /\ Cardinality(Let(w, from)) \in Nat
          BY <1>1, <1>5, <4>1, FS_AddElement, FS_CardinalityType
        <5>2. ~ (from > now)
          BY <1>1, <3>2
        <5>3. QED
          BY <3>1, <4>1, <5>1, <5>2
    <3>3. CASE from > now
      <4>1. r \notin Let(w, from)' /\ r \notin Let(w, from)
        BY <1>1, <2>2, <3>3 DEF Let
      <4>2. Let(w, from)' = Let(w, from)
        BY <1>3, <4>1 DEF Let
      <4>3. QED
        BY <1>1, <3>1, <3>3, <4>2
    <3>4. QED
      BY <1>1, <3>2, <3>3
  <2>5. ASSUME NEW from \in Nat, NEW k \in 0..(l + 1), from + Window > now, \A i \in 1..k : b[i] < from
        PROVE  Cardinality(Let(w, from)') <= (l + 1) - k
    <3>0. Cardinality(Let(w, from)) \in Nat /\ Cardinality(Let(w, from)') \in Nat
      <4>1. Let(w, from)' \in SUBSET Visit
        BY DEF Let
      <4>2. IsFiniteSet(Let(w, from)')
        BY <4>1, VisitsAreFinite, FS_Subset
      <4>3. QED
        BY <1>1, <1>5, <4>2, FS_CardinalityType
    <3>1. CASE k <= l
      <4>1. \A i \in 1..k : Limiter!Recent(w)[i] < from
        BY <2>3, <2>5, <3>1
      <4>2. k \in 0..Len(Limiter!Recent(w))
        BY <2>3, <3>1 DEF l
      <4>3. Cardinality(Let(w, from)) <= l - k
        BY <1>2, <2>5, <4>1, <4>2 DEF l
      <4>4. Cardinality(Let(w, from)') <= Cardinality(Let(w, from)) + 1
        BY <1>1, <2>4, <3>0
      <4>5. QED
        BY <2>3, <3>0, <4>3, <4>4
    <3>2. CASE ~(k <= l)
      <4>1. k = l + 1
        BY <2>3, <3>2
      <4>2. from > now
        BY <1>1, <2>3, <2>5, <4>1
      <4>3. \A q \in Visit : asked[q].pc = "passed" /\ asked[q].by = "memory" /\ asked[q].on = w => ~(asked[q].at >= from)
        <5>1. ASSUME NEW q \in Visit, asked[q].pc = "passed", asked[q].by = "memory", asked[q].on = w, asked[q].at >= from
              PROVE  FALSE
          <6>1. asked[q].at <= now
            BY DEF LimitTyped
          <6>2. QED
            BY <1>1, <4>2, <5>1, <6>1 DEF LimitTyped, Asks
        <5>2. QED
          BY <5>1
      <4>4. Let(w, from) = {}
        BY <4>3 DEF Let
      <4>5. Let(w, from)' = {}
        BY <2>4, <4>2, <4>4
      <4>6. QED
        BY <2>3, <4>1, <4>5, FS_EmptySet
    <3>3. QED
      BY <3>1, <3>2
  <2>6. Noted(w)'
    <3>1. ASSUME NEW i \in 1..(l + 1) PROVE b[i] <= now
      <4>1. CASE i = l + 1
        BY <1>1, <2>3, <4>1
      <4>2. CASE i # l + 1
        <5>1. i \in 1..l
          BY <2>3, <4>2
        <5>2. b[i] = Limiter!Recent(w)[i] /\ Limiter!Recent(w)[i] <= now
          BY <1>2, <2>3, <5>1 DEF l
        <5>3. QED
          BY <5>2
      <4>3. QED
        BY <4>1, <4>2
    <3>2. l + 1 <= Limit
      BY <1>1, <2>3
    <3>3. QED
      BY <1>1, <2>2, <2>3, <2>5, <3>1, <3>2 DEF Noted
  <2>7. \A o \in Worker \ {w} : Noted(o)'
    BY <1>1, <1>4, <2>4 DEF MemoryInv, Noted
  <2>8. ASSUME NEW o \in Worker, NEW from \in Nat PROVE Cardinality(Limiter!Passed("memory", {o}, from)') <= Limit
    <3>1. CASE o # w
      BY <1>1, <2>4, <3>1 DEF MemoryInv, MemoryBound
    <3>2. CASE o = w /\ now \notin from..(from + Window - 1)
      <4>1. Limiter!Passed("memory", {w}, from)' = Limiter!Passed("memory", {w}, from)
        BY <1>1, <1>3, <2>2, <3>2 DEF Limiter!Passed
      <4>2. QED
        BY <1>1, <3>2, <4>1 DEF MemoryInv, MemoryBound
    <3>3. CASE o = w /\ now \in from..(from + Window - 1)
      <4>1. from + Window > now
        BY <1>1, <3>3
      <4>2. Cardinality(Let(w, from)') <= (l + 1) - 0
        <5>1. 0 \in 0..(l + 1) /\ \A i \in 1..0 : b[i] < from
          BY <2>3
        <5>2. QED
          BY <2>5, <4>1, <5>1
      <4>3. Limiter!Passed("memory", {w}, from)' \in SUBSET (Let(w, from)')
        BY <1>1 DEF Limiter!Passed, Let, LimitTyped, Asks
      <4>4. IsFiniteSet(Let(w, from)')
        <5>1. Let(w, from)' \in SUBSET Visit
          BY DEF Let
        <5>2. QED
          BY <5>1, VisitsAreFinite, FS_Subset
      <4>5. Cardinality(Limiter!Passed("memory", {w}, from)') <= Cardinality(Let(w, from)')
            /\ Cardinality(Limiter!Passed("memory", {w}, from)') \in Nat /\ Cardinality(Let(w, from)') \in Nat
        BY <4>3, <4>4, FS_Subset, FS_CardinalityType
      <4>6. QED
        BY <1>1, <2>3, <3>3, <4>2, <4>5
    <3>4. QED
      BY <3>1, <3>2, <3>3
  <2>9. QED
    BY <2>2, <2>6, <2>7, <2>8 DEF MemoryInv, MemoryBound
<1>8. QED
  BY <1>6, <1>7

\* A step in which nobody new is counted and the counter stays.
LEMMA RedisStays ==
    ASSUME LimitTyped, NEW start \in Nat, Epoch(start), Apart, counter' = counter, now' = now,
           \A r \in Visit : \/ asked'[r] = asked[r] \/ r \notin Counted'
                            \/ r \in Counted /\ asked'[r].at = asked[r].at /\ asked'[r].count = asked[r].count
    PROVE  Epoch(start)' /\ Apart'
<1>1. \A r \in Counted' : r \in Counted /\ asked'[r].at = asked[r].at /\ asked'[r].count = asked[r].count
  BY DEF Counted
<1>2. Epoch(start)'
  BY <1>1 DEF Epoch
<1>3. Apart'
  BY <1>1 DEF Apart
<1>4. QED
  BY <1>2, <1>3

\* The key expires: its window is over, and with it what it has counted.
LEMMA ExpiryCloses ==
    ASSUME LimitTyped, NEW start \in Nat, Epoch(start), counter.until = now + 1, Limiter!Tick, NEW s \in Nat, s = now + 1
    PROVE  Epoch(s)'
<1> USE LimitAssumed DEF Limiter!LimitAssumption
<1>1. /\ now' = now + 1 /\ counter' = [count |-> 0, until |-> 0] /\ asked' = asked /\ now \in Nat
      /\ counter.until # 0 /\ counter.until >= start + Window /\ Window \in Nat /\ Counted' = Counted
  BY DEF Limiter!Tick, LimitTyped, Epoch, Counted
<1>2. counter'.until = 0 /\ counter'.count = 0
  BY <1>1
<1>3. \A r \in Counted : asked[r].at \in Nat /\ asked[r].at <= now
  BY DEF Epoch, LimitTyped, Counted, Asks
<1>4. ASSUME NEW r \in Counted
      PROVE  asked[r].at <= now + 1 /\ ~(asked[r].at >= now + 1) /\ asked[r].at < now + 1
  BY <1>1, <1>3
<1>5. ASSUME NEW r \in Counted, NEW q \in Counted, r # q, asked[r].count = asked[q].count
      PROVE  asked[r].at + Window <= now + 1 \/ asked[q].at + Window <= now + 1
  <2>1. start + Window <= now + 1
    BY <1>1
  <2>2. \/ asked[r].at < start \/ asked[q].at < start
    BY <1>5 DEF Epoch
  <2>3. \A a \in Nat : a < start => a + Window <= now + 1
    BY <1>1, <2>1
  <2>4. QED
    BY <1>3, <2>2, <2>3
<1>6. now + 1 \in Nat /\ now + 1 <= now'
  BY <1>1
<1>8. \A r \in Counted' : asked'[r].at <= now' /\ ~(asked'[r].at >= s)
  BY <1>1, <1>4
<1>9. \A r, q \in Counted' : r # q /\ asked'[r].count = asked'[q].count =>
         /\ asked'[r].at < s /\ asked'[q].at < s
         /\ asked'[r].at + Window <= s \/ asked'[q].at + Window <= s
  BY <1>1, <1>4, <1>5
<1>7. QED
  BY <1>2, <1>6, <1>8, <1>9 DEF Epoch

\* A tick keeps the epochs of the counter apart,
LEMMA TickRedis ==
    ASSUME LimitTyped, NEW start \in Nat, Epoch(start), Apart, Limiter!Tick
    PROVE  (\E s \in Nat : Epoch(s)') /\ Apart'
<1>1. asked' = asked /\ now' = now + 1 /\ now \in Nat /\ Counted' = Counted
  BY DEF Limiter!Tick, LimitTyped, Counted
<1>2. Apart'
  BY <1>1 DEF Apart
<1>3. CASE counter.until = now + 1
  <2>1. PICK s \in Nat : s = now + 1
    BY <1>1
  <2>2. Epoch(s)'
    BY <1>3, <2>1, ExpiryCloses
  <2>3. QED
    BY <1>2, <2>2
<1>4. CASE counter.until # now + 1
  <2>1. counter' = counter /\ counter.until \in Nat
    BY <1>4 DEF Limiter!Tick, LimitTyped
  <2>2. \A r \in Counted : asked[r].at <= now + 1
    BY <1>1 DEF Epoch, LimitTyped, Counted, Asks
  <2>3. counter.until # 0 => counter.until > now + 1
    BY <1>1, <1>4, <2>1 DEF Epoch
  <2>4. start <= now + 1
    BY <1>1 DEF Epoch
  <2>5. Epoch(start)'
    BY <1>1, <2>1, <2>2, <2>3, <2>4 DEF Epoch
  <2>6. QED
    BY <1>2, <2>5
<1>5. QED
  BY <1>3, <1>4

\* an INCR counts one more in the current one,
LEMMA IncrRedis ==
    ASSUME LimitTyped, NEW start \in Nat, Epoch(start), Apart, Checked, NEW r \in Visit, Limiter!Incr(r)
    PROVE  Epoch(start)' /\ Apart' /\ r \in Counted'
<1> USE LimitAssumed DEF Limiter!LimitAssumption
<1> DEFINE c == counter.count + 1
<1>1. now' = now /\ now \in Nat /\ c \in Nat \ {0} /\ counter.until \in Nat /\ Window \in Nat \ {0}
  BY DEF Limiter!Incr, LimitTyped
<1>2. counter' = [counter EXCEPT !.count = c]
  BY DEF Limiter!Incr
<1>3. counter'.count = c /\ counter'.until = counter.until
  BY <1>2 DEF LimitTyped
<1>4. /\ asked'[r].at = now /\ asked'[r].count = c /\ asked'[r].by = "nothing"
      /\ \A q \in Visit \ {r} : asked'[q] = asked[q]
  BY <1>3 DEF Limiter!Incr, LimitTyped, Asks, Checked
<1> HIDE DEF c
<1>5. Counted' = Counted \cup {r} /\ r \notin Counted
  <2>1. asked[r].count = 0
    BY DEF Limiter!Incr, Checked
  <2>2. asked'[r].count > 0
    BY <1>1, <1>4
  <2>3. r \in Counted' /\ r \notin Counted
    BY <1>4, <2>1, <2>2 DEF Counted
  <2>4. \A q \in Visit \ {r} : q \in Counted' <=> q \in Counted
    BY <1>4 DEF Counted
  <2>5. Counted' \subseteq Visit /\ Counted \subseteq Visit
    BY DEF Counted
  <2>6. QED
    BY <2>3, <2>4, <2>5
<1>6. \A q \in Counted : /\ asked'[q] = asked[q] /\ asked[q].at \in Nat /\ asked[q].at <= now
                         /\ asked[q].at >= start => asked[q].count <= counter.count
                         /\ asked[q].count \in Nat
  BY <1>4, <1>5 DEF Counted, Epoch, LimitTyped, Asks
<1>7. counter.count \in Nat /\ c = counter.count + 1 /\ start <= now
  BY DEF LimitTyped, c, Epoch
<1>8. \A q \in Counted : asked[q].count = c => asked[q].at < start
  BY <1>6, <1>7
<1>9. ASSUME NEW q \in Counted'
      PROVE  /\ asked'[q].at <= now'
             /\ asked'[q].at >= start => asked'[q].count <= counter'.count
  BY <1>1, <1>3, <1>4, <1>5, <1>6, <1>7, <1>9
<1>10. ASSUME NEW q \in Counted', NEW o \in Counted', q # o, asked'[q].count = asked'[o].count
       PROVE  \/ asked'[q].at < start /\ asked'[o].at >= start
              \/ asked'[o].at < start /\ asked'[q].at >= start
              \/ /\ asked'[q].at < start /\ asked'[o].at < start
                 /\ asked'[q].at + Window <= start \/ asked'[o].at + Window <= start
  <2>1. CASE q = r
    BY <1>1, <1>4, <1>5, <1>6, <1>7, <1>8, <1>10, <2>1
  <2>2. CASE o = r
    BY <1>1, <1>4, <1>5, <1>6, <1>7, <1>8, <1>10, <2>2
  <2>3. CASE q # r /\ o # r
    BY <1>5, <1>6, <1>10, <2>3 DEF Epoch
  <2>4. QED
    BY <2>1, <2>2, <2>3
<1>11. Epoch(start)'
  <2>1. counter'.until # 0 => counter'.until >= start + Window /\ counter'.until > now'
    BY <1>1, <1>3 DEF Epoch
  <2>2. start <= now'
    BY <1>1, <1>7
  <2>3. \A q \in Counted' :
           /\ asked'[q].at <= now'
           /\ asked'[q].at >= start => asked'[q].count <= counter'.count
    BY <1>9, Zenon
  <2>5. \A q, o \in Counted' :
           q # o /\ asked'[q].count = asked'[o].count =>
             \/ asked'[q].at < start /\ asked'[o].at >= start
             \/ asked'[o].at < start /\ asked'[q].at >= start
             \/ /\ asked'[q].at < start /\ asked'[o].at < start
                /\ asked'[q].at + Window <= start \/ asked'[o].at + Window <= start
    BY <1>10, Zenon
  <2>4. QED
    BY <2>1, <2>2, <2>3, <2>5 DEF Epoch
<1>12. ASSUME NEW q \in Counted, NEW o \in Counted, q # o, asked[q].count = c, asked[o].count = c
       PROVE  \E x \in {q, o} : asked[x].at + Window <= now
  <2>1. asked[q].at < start /\ asked[o].at < start
    BY <1>8, <1>12
  <2>2. asked[q].at + Window <= start \/ asked[o].at + Window <= start
    BY <1>6, <1>12, <2>1 DEF Epoch
  <2>3. QED
    BY <1>1, <1>6, <1>7, <2>2
<1>13. ASSUME NEW x \in Counted', NEW y \in Counted', NEW z \in Counted', x # y, y # z, x # z,
              asked'[x].count = asked'[y].count, asked'[y].count = asked'[z].count
       PROVE  \E a, b \in {x, y, z} : asked'[a].at + Window <= asked'[b].at
  <2>1. CASE r \notin {x, y, z}
    <3>1. x \in Counted /\ y \in Counted /\ z \in Counted
      BY <1>5, <2>1
    <3>2. \E a, b \in {x, y, z} : asked[a].at + Window <= asked[b].at
      BY <1>6, <1>13, <3>1 DEF Apart
    <3>3. QED
      BY <1>6, <3>1, <3>2
  <2>2. ASSUME NEW q \in {x, y, z}, NEW o \in {x, y, z}, q # o, q # r, o # r, r \in {x, y, z}
        PROVE  \E a, b \in {x, y, z} : asked'[a].at + Window <= asked'[b].at
    <3>1. q \in Counted /\ o \in Counted /\ asked'[q].count = c /\ asked'[o].count = c
      BY <1>4, <1>5, <1>13, <2>2
    <3>2. PICK a \in {q, o} : asked[a].at + Window <= now
      BY <1>6, <1>12, <2>2, <3>1
    <3>3. asked'[a].at + Window <= asked'[r].at
      BY <1>4, <1>6, <3>1, <3>2
    <3>4. QED
      BY <2>2, <3>2, <3>3
  <2>3. QED
    BY <1>13, <2>1, <2>2
<1>14. Apart'
  BY <1>13 DEF Apart
<1>15. QED
  BY <1>5, <1>11, <1>14

\* and an EXPIRE gives it its end.
LEMMA ExpireRedis ==
    ASSUME LimitTyped, NEW start \in Nat, Epoch(start), Apart, Checked, NEW r \in Visit, Limiter!Expire(r)
    PROVE  Epoch(start)' /\ Apart'
<1> USE LimitAssumed DEF Limiter!LimitAssumption
<1>1. /\ now' = now /\ now \in Nat /\ Window \in Nat \ {0} /\ counter'.count = counter.count
      /\ counter' = counter \/ counter'.until = now + Window
  BY DEF Limiter!Expire, LimitTyped
<1>2. \A q \in Visit : asked'[q].at = asked[q].at /\ asked'[q].count = asked[q].count /\ asked'[q].by = asked[q].by
  BY DEF Limiter!Expire, LimitTyped, Asks
<1>3. Counted' = Counted
  BY <1>2 DEF Counted
<1>4. counter'.until # 0 => counter'.until >= start + Window /\ counter'.until > now
  <2>1. start <= now
    BY DEF Epoch
  <2>2. CASE counter' = counter
    BY <2>2 DEF Epoch
  <2>3. CASE counter'.until = now + Window
    BY <1>1, <2>1, <2>3
  <2>4. QED
    BY <1>1, <2>2, <2>3
<1>5. Counted \subseteq Visit
  BY DEF Counted
<1>6. Epoch(start)'
  BY <1>1, <1>2, <1>3, <1>4, <1>5 DEF Epoch
<1>7. Apart'
  BY <1>2, <1>3, <1>5 DEF Apart
<1>8. QED
  BY <1>6, <1>7

\* Every step keeps the invariant of the limiters,
LEMMA LimitInvStep == RateInv /\ [Limiter!Next]_limitVars => RateInv'
<1> SUFFICES ASSUME RateInv, [Limiter!Next]_limitVars PROVE RateInv'
  OBVIOUS
<1> USE LimitAssumed DEF Limiter!LimitAssumption
<1>0. LimitTyped /\ MemoryInv /\ RedisInv /\ Apart /\ RedisPassed /\ Checked /\ now \in Nat
  BY DEF RateInv, RedisInv, LimitTyped
<1>s. PICK start \in Nat : Epoch(start)
  BY DEF RateInv, RedisInv
<1>1. CASE UNCHANGED limitVars
  <2>1. UNCHANGED <<now, counter, buckets, asked, failed>>
    BY <1>1 DEF limitVars
  <2>2. now' \in Nat /\ now' >= now
    BY <1>0, <2>1
  <2>3. MemoryInv'
    BY <1>0, <2>1, <2>2, MemoryStays
  <2>4. Epoch(start)' /\ Apart'
    BY <1>0, <1>s, <2>1, RedisStays
  <2>5. LimitTyped' /\ RedisPassed' /\ Checked'
    BY <1>0, <2>1 DEF LimitTyped, RedisPassed, Checked, Counted
  <2>6. QED
    BY <1>s, <2>3, <2>4, <2>5 DEF RateInv, RedisInv
<1>2. CASE Limiter!Tick
  <2>1. now' = now + 1 /\ asked' = asked /\ buckets' = buckets /\ failed' = failed /\ now' \in Nat /\ now' >= now
    BY <1>0, <1>2 DEF Limiter!Tick
  <2>2. LimitTyped'
    <3>1. counter' \in [count : Nat, until : Nat]
      BY <1>0, <1>2 DEF Limiter!Tick, LimitTyped
    <3>2. \A r \in Visit : asked[r].at <= now + 1
      BY <1>0 DEF LimitTyped, Asks
    <3>3. QED
      BY <1>0, <2>1, <3>1, <3>2 DEF LimitTyped
  <2>3. MemoryInv'
    BY <1>0, <2>1, MemoryStays
  <2>4. RedisPassed' /\ Checked'
    BY <1>0, <2>1 DEF RedisPassed, Checked, Counted
  <2>5. QED
    BY <1>0, <1>2, <1>s, <2>2, <2>3, <2>4, TickRedis DEF RateInv, RedisInv
<1>3. ASSUME NEW r \in Visit, Limiter!Incr(r) PROVE RateInv'
  <2>1. now' = now /\ buckets' = buckets /\ failed' = failed /\ asked[r].pc = "new" /\ asked[r].by = "nothing"
    BY <1>0, <1>3 DEF Limiter!Incr, Checked
  <2>2. counter'.count \in Nat /\ counter' \in [count : Nat, until : Nat]
    BY SMTT(30), <1>0, <1>3 DEF Limiter!Incr, LimitTyped
  <2>3. PICK pc \in {"expire", "check"} :
            asked' = [asked EXCEPT ![r].pc = pc, ![r].at = now, ![r].count = counter'.count]
    BY <1>3 DEF Limiter!Incr
  <2>4. asked'[r] = [asked[r] EXCEPT !.pc = pc, !.at = now, !.count = counter'.count]
        /\ \A q \in Visit \ {r} : asked'[q] = asked[q]
    BY <1>0, <2>3 DEF LimitTyped
  <2>5. asked[r] \in Asks
    BY <1>0 DEF LimitTyped
  <2>6. asked'[r] \in Asks /\ asked'[r].pc = pc /\ asked'[r].at = now /\ asked'[r].by = "nothing"
    BY <1>0, <2>1, <2>2, <2>4, <2>5 DEF Asks
  <2>7. asked' = [asked EXCEPT ![r] = asked'[r]]
    BY <1>0, <2>3, <2>4 DEF LimitTyped
  <2>8. LimitTyped'
    <3>1. asked' \in [Visit -> Asks]
      BY <1>0, <2>6, <2>7 DEF LimitTyped
    <3>2. ASSUME NEW q \in Visit PROVE asked'[q].at <= now
      <4>1. CASE q = r
        BY <1>0, <2>6, <4>1
      <4>2. CASE q # r
        BY <1>0, <2>4, <4>2 DEF LimitTyped
      <4>3. QED
        BY <4>1, <4>2
    <3>3. QED
      BY <1>0, <2>1, <2>2, <3>1, <3>2 DEF LimitTyped
  <2>9. MemoryInv'
    <3>1. ~(asked[r].pc = "passed") /\ ~(asked'[r].pc = "passed") /\ now' >= now
      BY <1>0, <2>1, <2>6
    <3>2. QED
      BY <1>0, <2>1, <2>4, <3>1, MemoryStays
  <2>10. Epoch(start)' /\ Apart' /\ r \in Counted'
    BY <1>0, <1>3, <1>s, IncrRedis
  <2>11. RedisPassed' /\ Checked'
    BY <1>0, <2>4, <2>6, <2>10 DEF RedisPassed, Checked, Counted
  <2>12. QED
    BY <1>s, <2>8, <2>9, <2>10, <2>11 DEF RateInv, RedisInv
<1>4. ASSUME NEW r \in Visit, Limiter!Expire(r) PROVE RateInv'
  <2>1. now' = now /\ buckets' = buckets /\ failed' = failed /\ asked[r].pc = "expire" /\ asked[r].by = "nothing" /\ r \in Counted
    BY <1>0, <1>4 DEF Limiter!Expire, Checked
  <2>2. counter' \in [count : Nat, until : Nat]
    BY <1>0, <1>4 DEF Limiter!Expire, LimitTyped
  <2>4. asked' = [asked EXCEPT ![r].pc = "check"]
    BY <1>4 DEF Limiter!Expire
  <2>5. LimitTyped'
    BY <1>0, <2>1, <2>2, <2>4 DEF LimitTyped, Asks
  <2>6. asked'[r].pc = "check" /\ asked'[r].by = asked[r].by /\ asked'[r].count = asked[r].count
        /\ \A q \in Visit \ {r} : asked'[q] = asked[q]
    BY <1>0, <2>4 DEF LimitTyped, Asks
  <2>7. MemoryInv'
    BY <1>0, <2>1, <2>6, MemoryStays
  <2>8. Epoch(start)' /\ Apart'
    BY <1>0, <1>4, <1>s, ExpireRedis
  <2>9. RedisPassed' /\ Checked'
    BY <1>0, <2>1, <2>6 DEF RedisPassed, Checked, Counted
  <2>10. QED
    BY <1>s, <2>5, <2>7, <2>8, <2>9 DEF RateInv, RedisInv
<1>5. ASSUME NEW r \in Visit, Limiter!Check(r) PROVE RateInv'
  <2>1. /\ now' = now /\ buckets' = buckets /\ failed' = failed /\ counter' = counter /\ asked[r].pc = "check"
        /\ asked[r].by = "nothing" /\ r \in Counted
    BY <1>0, <1>5 DEF Limiter!Check, Checked
  <2>2. /\ asked'[r] \in Asks /\ asked' = [asked EXCEPT ![r] = asked'[r]]
        /\ asked'[r].at = asked[r].at /\ asked'[r].count = asked[r].count
        /\ \/ asked'[r].pc = "passed" /\ asked'[r].by = "redis" /\ asked[r].count <= Limit
           \/ asked'[r].pc = "ttl" /\ asked'[r].by = "nothing"
    <3>1. asked[r] \in Asks
      BY <1>0 DEF LimitTyped
    <3>2. CASE asked[r].count <= Limit
      <4>1. asked'[r] = [asked[r] EXCEPT !.pc = "passed", !.by = "redis"]
        BY <1>0, <1>5, <3>2 DEF Limiter!Check, LimitTyped
      <4>2. asked' = [asked EXCEPT ![r] = asked'[r]]
        BY <1>0, <1>5, <3>2, <4>1 DEF Limiter!Check, LimitTyped
      <4>3. QED
        BY <3>1, <3>2, <4>1, <4>2 DEF Asks
    <3>3. CASE ~(asked[r].count <= Limit)
      <4>1. asked'[r] = [asked[r] EXCEPT !.pc = "ttl"]
        BY <1>0, <1>5, <3>3 DEF Limiter!Check, LimitTyped
      <4>2. asked' = [asked EXCEPT ![r] = asked'[r]]
        BY <1>0, <1>5, <3>3, <4>1 DEF Limiter!Check, LimitTyped
      <4>3. QED
        BY <2>1, <3>1, <4>1, <4>2 DEF Asks
    <3>4. QED
      BY <3>2, <3>3
  <2>3. \A q \in Visit \ {r} : asked'[q] = asked[q]
    BY <1>0, <2>2 DEF LimitTyped
  <2>4. LimitTyped'
    BY <1>0, <2>1, <2>2, <2>3 DEF LimitTyped
  <2>5. MemoryInv'
    BY <1>0, <2>1, <2>2, <2>3, MemoryStays
  <2>6. r \in Counted'
    BY <2>1, <2>2 DEF Counted
  <2>7. Epoch(start)' /\ Apart'
    BY <1>0, <1>s, <2>1, <2>2, <2>3, RedisStays
  <2>8. asked[r].count \in 1..Limit \/ asked'[r].by = "nothing"
    BY <1>0, <2>1, <2>2 DEF LimitTyped, Asks, Counted
  <2>9. RedisPassed' /\ Checked'
    BY <1>0, <2>1, <2>2, <2>3, <2>6, <2>8 DEF RedisPassed, Checked, Counted
  <2>10. QED
    BY <1>s, <2>4, <2>5, <2>7, <2>9 DEF RateInv, RedisInv
<1>6. ASSUME NEW r \in Visit, Limiter!Ttl(r) PROVE RateInv'
  <2>1. /\ now' = now /\ buckets' = buckets /\ failed' = failed /\ counter' = counter /\ asked[r].pc = "ttl"
        /\ asked[r].by = "nothing" /\ r \in Counted /\ asked' = [asked EXCEPT ![r].pc = "refused"]
    BY <1>0, <1>6 DEF Limiter!Ttl, Checked
  <2>2. /\ asked'[r].pc = "refused" /\ asked'[r].by = asked[r].by /\ asked'[r].at = asked[r].at
        /\ asked'[r].count = asked[r].count
        /\ \A q \in Visit \ {r} : asked'[q] = asked[q]
    BY <1>0, <2>1 DEF LimitTyped, Asks
  <2>3. LimitTyped'
    BY <1>0, <2>1 DEF LimitTyped, Asks
  <2>4. MemoryInv'
    BY <1>0, <2>1, <2>2, MemoryStays
  <2>5. Epoch(start)' /\ Apart'
    BY <1>0, <1>s, <2>1, <2>2, RedisStays
  <2>6. RedisPassed' /\ Checked'
    BY <1>0, <2>1, <2>2 DEF RedisPassed, Checked, Counted
  <2>7. QED
    BY <1>s, <2>3, <2>4, <2>5, <2>6 DEF RateInv, RedisInv
<1>7. ASSUME NEW r \in Visit, Limiter!FallBack(r) PROVE RateInv'
  <2>1. now' = now /\ counter' = counter /\ failed' = failed + 1 /\ asked[r].pc \in {"new", "expire", "ttl"}
        /\ asked[r].by = "nothing"
    BY <1>0, <1>7 DEF Limiter!FallBack, Checked
  <2>2. MemoryInv' /\ buckets' \in [Worker -> Seq(Nat)]
    BY <1>0, <1>7, FallBackMemory
  <2>3. /\ asked'[r] \in Asks /\ asked' = [asked EXCEPT ![r] = asked'[r]] /\ asked'[r].at <= now
        /\ asked'[r].count = asked[r].count
        /\ \/ asked'[r].pc = "passed" /\ asked'[r].by = "memory"
           \/ asked'[r].pc = "refused" /\ asked'[r].by = "nothing" /\ asked'[r].at = asked[r].at
    <3>1. asked[r] \in Asks /\ asked[r].at <= now
      BY <1>0 DEF LimitTyped
    <3>2. CASE asked' = [asked EXCEPT ![r].pc = "refused"]
      <4>1. asked'[r] = [asked[r] EXCEPT !.pc = "refused"]
        BY <1>0, <3>2 DEF LimitTyped
      <4>2. asked' = [asked EXCEPT ![r] = asked'[r]]
        BY <1>0, <3>2, <4>1 DEF LimitTyped
      <4>3. QED
        BY <2>1, <3>1, <4>1, <4>2 DEF Asks
    <3>3. CASE asked' = [asked EXCEPT ![r].pc = "passed", ![r].at = now, ![r].by = "memory"]
      <4>1. asked'[r] = [asked[r] EXCEPT !.pc = "passed", !.at = now, !.by = "memory"]
        BY <1>0, <3>3 DEF LimitTyped
      <4>2. asked' = [asked EXCEPT ![r] = asked'[r]]
        BY <1>0, <3>3, <4>1 DEF LimitTyped
      <4>3. asked'[r] \in Asks /\ asked'[r].at = now /\ asked'[r].count = asked[r].count
            /\ asked'[r].pc = "passed" /\ asked'[r].by = "memory"
        BY <1>0, <3>1, <4>1 DEF Asks
      <4>4. QED
        BY <1>0, <4>2, <4>3
    <3>4. QED
      BY <1>7, <3>2, <3>3 DEF Limiter!FallBack
  <2>4. \A q \in Visit \ {r} : asked'[q] = asked[q]
    BY <1>0, <2>3 DEF LimitTyped
  <2>5. LimitTyped'
    <3>1. asked' \in [Visit -> Asks]
      BY <1>0, <2>3 DEF LimitTyped
    <3>2. \A q \in Visit : asked'[q].at <= now
      BY <1>0, <2>3, <2>4 DEF LimitTyped
    <3>3. QED
      BY <1>0, <2>1, <2>2, <3>1, <3>2 DEF LimitTyped
  <2>6. r \in Counted' => r \in Counted /\ asked'[r].at = asked[r].at
    BY <2>1, <2>3 DEF Counted
  <2>7. Epoch(start)' /\ Apart'
    BY <1>0, <1>s, <2>1, <2>3, <2>4, <2>6, RedisStays
  <2>8. RedisPassed' /\ Checked'
    BY <1>0, <2>1, <2>3, <2>4 DEF RedisPassed, Checked, Counted
  <2>9. QED
    BY <1>s, <2>2, <2>5, <2>7, <2>8 DEF RateInv, RedisInv
<1>8. QED
  BY <1>1, <1>2, <1>3, <1>4, <1>5, <1>6, <1>7 DEF Limiter!Next

\* and it implies the bound on what passes.
LEMMA LimitInvSuffices == RateInv => Limiter!PassesAreBounded
<1> SUFFICES ASSUME RateInv, NEW from \in 1..MaxTime
             PROVE  /\ Cardinality(Limiter!Passed("redis", Worker, from)) <= 2 * Limit
                    /\ \A w \in Worker : Cardinality(Limiter!Passed("memory", {w}, from)) <= Limit
  BY Counts DEF Limiter!PassesAreBounded
<1> USE LimitAssumed DEF Limiter!LimitAssumption
<1> DEFINE S == Limiter!Passed("redis", Worker, from)
           f == [r \in S |-> asked[r].count]
<1>1. from \in Nat /\ Limit \in Nat
  OBVIOUS
<1>2. IsFiniteSet(S)
  <2>1. S \in SUBSET Visit
    BY DEF Limiter!Passed
  <2>2. QED
    BY <2>1, VisitsAreFinite, FS_Subset
<1>3. \A r \in S : r \in Counted /\ asked[r].count \in 1..Limit /\ asked[r].at \in from..(from + Window - 1)
  BY DEF Limiter!Passed, RateInv, RedisInv, RedisPassed
<1>4. f \in [S -> 1..Limit]
  BY <1>3
<1>5. ASSUME NEW x \in S, NEW y \in S, NEW z \in S, f[x] = f[y], f[y] = f[z], x # y, y # z, x # z PROVE FALSE
  <2>1. asked[x].count = asked[y].count /\ asked[y].count = asked[z].count
    BY <1>5
  <2>2. PICK a \in {x, y, z} : \E b \in {x, y, z} : asked[a].at + Window <= asked[b].at
    BY <1>3, <1>5, <2>1 DEF RateInv, RedisInv, Apart
  <2>3. PICK b \in {x, y, z} : asked[a].at + Window <= asked[b].at
    BY <2>2
  <2>4. asked[a].at \in from..(from + Window - 1) /\ asked[b].at \in from..(from + Window - 1)
    BY <1>3
  <2> HIDE DEF S, f
  <2>5. QED
    BY <1>1, <2>3, <2>4
<1>6. Cardinality(S) <= 2 * Limit
  <2> HIDE DEF S, f
  <2>1. \A x, y, z \in S : f[x] = f[y] /\ f[y] = f[z] => x = y \/ y = z \/ x = z
    BY <1>5
  <2>2. QED
    BY <1>1, <1>2, <1>4, <2>1, TwoOfEach
<1>7. QED
  BY <1>1, <1>6 DEF RateInv, MemoryInv, MemoryBound

\* What passes the two limiters within a window is bounded, whatever Redis
\* does (rate_limit_middleware).
THEOREM PassesAreBoundedHolds == ServicesSpec => []PassesAreBounded
<1>1. ServicesInit => RateInv
  BY LimitInvInitially DEF ServicesInit
<1>2. RateInv /\ [ServicesNext]_servicesVars => RateInv'
  BY LimitInvStep, StepOrStutter
<1>3. RateInv => PassesAreBounded
  BY LimitInvSuffices DEF PassesAreBounded
<1>4. QED
  BY <1>1, <1>2, <1>3, PTL DEF ServicesSpec, servicesVars

\* The numbers of the limiters stay within their bounds: the key counts no
\* more than the requests that have begun.
Begun == {r \in Visit : asked[r].pc # "new"}
AskBound == [pc : {"new", "expire", "check", "ttl", "passed", "refused"}, on : Worker, at : 0..MaxTime,
             count : 0..Cardinality(Visit), by : {"nothing", "redis", "memory"}]
LimitBounds == Limiter!TypeOK /\ counter.count <= Cardinality(Begun)

\* Limiter!TypeOK, with the library's cardinality.
LEMMA LimitTypes ==
    Limiter!TypeOK <=>
        /\ now \in 1..MaxTime
        /\ counter \in [count : 0..Cardinality(Visit), until : 0..(MaxTime + Window)]
        /\ buckets \in [Worker -> Seq(1..MaxTime)]
        /\ asked \in [Visit -> AskBound]
        /\ failed \in 0..MaxFailures
  BY Counts DEF Limiter!TypeOK, AskBound
\* And of the next state.
LEMMA LimitTypesNext ==
    Limiter!TypeOK' <=>
        /\ now' \in 1..MaxTime
        /\ counter' \in [count : 0..Cardinality(Visit), until : 0..(MaxTime + Window)]
        /\ buckets' \in [Worker -> Seq(1..MaxTime)]
        /\ asked' \in [Visit -> AskBound]
        /\ failed' \in 0..MaxFailures
  BY Counts DEF Limiter!TypeOK, AskBound

\* The bounds hold initially.
LEMMA LimitBoundsInitially == Limiter!Init => LimitBounds
<1> SUFFICES ASSUME Limiter!Init PROVE LimitBounds
  OBVIOUS
<1> USE LimitAssumed DEF Limiter!LimitAssumption
<1>1. Cardinality(Visit) \in Nat
  BY VisitsAreFinite, FS_CardinalityType
<1>2. asked \in [Visit -> AskBound]
  BY <1>1 DEF Limiter!Init, AskBound
<1>3. Begun = {}
  BY DEF Limiter!Init, Begun
<1>4. counter = [count |-> 0, until |-> 0] /\ now = 1 /\ failed = 0 /\ buckets = [w \in Worker |-> <<>>]
  BY DEF Limiter!Init
<1>5. <<>> \in Seq(1..MaxTime)
  OBVIOUS
<1>6. buckets \in [Worker -> Seq(1..MaxTime)]
  BY <1>4, <1>5
<1>7. Limiter!TypeOK
  BY <1>1, <1>2, <1>4, <1>6, LimitTypes
<1>8. QED
  BY <1>3, <1>4, <1>7, FS_EmptySet DEF LimitBounds

\* What is left of a bucket is a bucket.
LEMMA RecentTyped ==
    ASSUME NEW w \in Worker, buckets \in [Worker -> Seq(1..MaxTime)], now \in 1..MaxTime
    PROVE  Limiter!Recent(w) \in Seq(1..MaxTime) /\ Append(Limiter!Recent(w), now) \in Seq(1..MaxTime)
<1> DEFINE Times == 1..MaxTime
<1>2. Times \subseteq Nat /\ buckets \in [Worker -> Seq(Times)] /\ now \in Times
  OBVIOUS
<1> HIDE DEF Times
<1>3. buckets \in [Worker -> Seq(Nat)] /\ now \in Nat
  <2>1. ASSUME NEW s \in Seq(Times) PROVE s \in Seq(Nat)
    <3>1. Len(s) \in Nat /\ s \in [1..Len(s) -> Times]
      OBVIOUS
    <3>2. s \in [1..Len(s) -> Nat]
      BY <1>2, <3>1
    <3>3. \A n \in Nat : \A f \in [1..n -> Nat] : f \in Seq(Nat)
      OBVIOUS
    <3>4. QED
      BY <3>1, <3>2, <3>3, Zenon
  <2>2. QED
    BY <1>2, <2>1
<1>4. PICK n \in 0..Len(buckets[w]) : Limiter!Recent(w) = SubSeq(buckets[w], n + 1, Len(buckets[w]))
  BY <1>3, RecentIs
<1>5. Limiter!Recent(w) \in Seq(Times)
  <2> DEFINE b == buckets[w]
  <2>1. b \in Seq(Times) /\ Len(b) \in Nat /\ n \in 0..Len(b)
    BY <1>2
  <2> HIDE DEF b
  <2>2. SubSeq(b, n + 1, Len(b)) \in Seq(Times)
    BY <2>1
  <2>3. QED
    BY <1>4, <2>2 DEF b
<1>6. Append(Limiter!Recent(w), now) \in Seq(Times)
  BY <1>2, <1>5
<1>7. QED
  BY <1>5, <1>6 DEF Times

\* A request that begins is one more.
LEMMA OneMoreBegun ==
    ASSUME NEW r \in Visit, asked[r].pc = "new", asked'[r].pc # "new",
           \A q \in Visit \ {r} : asked'[q] = asked[q]
    PROVE  Cardinality(Begun') = Cardinality(Begun) + 1 /\ Cardinality(Begun') <= Cardinality(Visit)
<1>1. Begun' = Begun \cup {r} /\ r \notin Begun
  BY DEF Begun
<1>2. IsFiniteSet(Begun)
  BY VisitsAreFinite, FS_Subset DEF Begun
<1>3. Begun' \subseteq Visit
  BY DEF Begun
<1>4. QED
  BY <1>1, <1>2, <1>3, VisitsAreFinite, FS_AddElement, FS_Subset

\* Every step keeps the bounds.
LEMMA LimitBoundsStep == LimitBounds /\ [Limiter!Next]_limitVars => LimitBounds'
<1> SUFFICES ASSUME LimitBounds, [Limiter!Next]_limitVars PROVE LimitBounds'
  OBVIOUS
<1> USE LimitAssumed DEF Limiter!LimitAssumption
<1>1. /\ now \in 1..MaxTime
      /\ counter \in [count : 0..Cardinality(Visit), until : 0..(MaxTime + Window)]
      /\ buckets \in [Worker -> Seq(1..MaxTime)]
      /\ asked \in [Visit -> AskBound]
      /\ failed \in 0..MaxFailures
  BY LimitTypes DEF LimitBounds
<1>2. Cardinality(Visit) \in Nat /\ Cardinality(Begun) \in Nat
  <2>1. Begun \in SUBSET Visit
    BY DEF Begun
  <2>2. QED
    BY <2>1, VisitsAreFinite, FS_CardinalityType, FS_Subset
<1>3. counter.count \in 0..Cardinality(Visit) /\ counter.until \in 0..(MaxTime + Window)
      /\ counter.count <= Cardinality(Begun)
  BY <1>1 DEF LimitBounds
<1>4. CASE UNCHANGED limitVars
  <2>1. Begun' = Begun
    BY <1>4 DEF limitVars, Begun
  <2>2. QED
    BY <1>1, <1>3, <1>4, <2>1, LimitTypesNext DEF limitVars, LimitBounds
<1>5. CASE Limiter!Tick
  <2>1. Begun' = Begun
    BY <1>5 DEF Limiter!Tick, Begun
  <2>2. now' \in 1..MaxTime /\ buckets' = buckets /\ asked' = asked /\ failed' = failed
    BY <1>1, <1>5 DEF Limiter!Tick
  <2>3. counter' = counter \/ counter' = [count |-> 0, until |-> 0]
    BY <1>5 DEF Limiter!Tick
  <2>4. counter' \in [count : 0..Cardinality(Visit), until : 0..(MaxTime + Window)]
        /\ counter'.count <= Cardinality(Begun)
    BY <1>1, <1>2, <1>3, <2>3
  <2>5. QED
    BY <1>1, <2>1, <2>2, <2>4, LimitTypesNext DEF LimitBounds
<1>6. ASSUME NEW r \in Visit, Limiter!Incr(r) PROVE LimitBounds'
  <2>1. PICK pc \in {"expire", "check"} :
            asked' = [asked EXCEPT ![r].pc = pc, ![r].at = now, ![r].count = counter'.count]
    BY <1>6 DEF Limiter!Incr
  <2>2. asked[r].pc = "new" /\ now' = now /\ buckets' = buckets /\ failed' = failed
    BY <1>6 DEF Limiter!Incr
  <2>3. counter' \in [count : Nat, until : 0..(MaxTime + Window)] /\ counter'.count = counter.count + 1
    BY <1>1, <1>3, <1>6 DEF Limiter!Incr
  <2>4. asked'[r].pc = pc /\ \A q \in Visit \ {r} : asked'[q] = asked[q]
    BY <1>1, <2>1 DEF AskBound
  <2>5. Cardinality(Begun') = Cardinality(Begun) + 1 /\ Cardinality(Begun') <= Cardinality(Visit)
    BY <2>2, <2>4, OneMoreBegun
  <2>6. counter'.count <= Cardinality(Begun') /\ counter'.count \in 0..Cardinality(Visit)
    BY <1>2, <1>3, <2>3, <2>5
  <2>7. counter' \in [count : 0..Cardinality(Visit), until : 0..(MaxTime + Window)]
    BY <2>3, <2>6
  <2>8. now \in 0..MaxTime
    BY <1>1
  <2>9. [asked[r] EXCEPT !.pc = pc, !.at = now, !.count = counter'.count] \in AskBound
    BY <1>1, <2>6, <2>8 DEF AskBound
  <2>10. asked' = [asked EXCEPT ![r] = [asked[r] EXCEPT !.pc = pc, !.at = now, !.count = counter'.count]]
    BY <1>1, <2>1 DEF AskBound
  <2>11. asked' \in [Visit -> AskBound]
    BY <1>1, <2>9, <2>10
  <2>12. QED
    BY <1>1, <2>2, <2>6, <2>7, <2>11, LimitTypesNext DEF LimitBounds
<1>7. ASSUME NEW r \in Visit, Limiter!Expire(r) \/ Limiter!Check(r) \/ Limiter!Ttl(r) PROVE LimitBounds'
  <2>1. PICK pc \in {"check", "passed", "ttl", "refused"}, by \in {asked[r].by, "redis"} :
            asked' = [asked EXCEPT ![r].pc = pc, ![r].by = by]
    <3>1. CASE Limiter!Expire(r)
      <4>1. asked' = [asked EXCEPT ![r].pc = "check"]
        BY <3>1 DEF Limiter!Expire
      <4>2. asked' = [asked EXCEPT ![r].pc = "check", ![r].by = asked[r].by]
        BY <1>1, <4>1 DEF AskBound
      <4>3. QED
        BY <4>2
    <3>2. CASE Limiter!Check(r)
      <4>1. asked' = [asked EXCEPT ![r].pc = "passed", ![r].by = "redis"] \/ asked' = [asked EXCEPT ![r].pc = "ttl"]
        BY <3>2 DEF Limiter!Check
      <4>2. asked' = [asked EXCEPT ![r].pc = "passed", ![r].by = "redis"]
            \/ asked' = [asked EXCEPT ![r].pc = "ttl", ![r].by = asked[r].by]
        BY <1>1, <4>1 DEF AskBound
      <4>3. QED
        BY <4>2
    <3>3. CASE Limiter!Ttl(r)
      <4>1. asked' = [asked EXCEPT ![r].pc = "refused"]
        BY <3>3 DEF Limiter!Ttl
      <4>2. asked' = [asked EXCEPT ![r].pc = "refused", ![r].by = asked[r].by]
        BY <1>1, <4>1 DEF AskBound
      <4>3. QED
        BY <4>2
    <3>4. QED
      BY <1>7, <3>1, <3>2, <3>3
  <2>2. asked[r].pc # "new" /\ now' = now /\ buckets' = buckets /\ failed' = failed
    BY <1>7 DEF Limiter!Expire, Limiter!Check, Limiter!Ttl
  <2>3. counter' = counter \/ counter' = [counter EXCEPT !.until = now + Window]
    BY <1>7 DEF Limiter!Expire, Limiter!Check, Limiter!Ttl
  <2>4. now + Window \in 0..(MaxTime + Window)
    BY <1>1
  <2>5. counter' \in [count : 0..Cardinality(Visit), until : 0..(MaxTime + Window)] /\ counter'.count = counter.count
    BY <1>1, <2>3, <2>4
  <2>6. asked' \in [Visit -> AskBound] /\ asked'[r].pc = pc /\ \A q \in Visit \ {r} : asked'[q] = asked[q]
    BY ZenonT(40), <1>1, <2>1 DEF AskBound
  <2>7. Begun' = Begun
    BY <2>2, <2>6 DEF Begun
  <2>8. QED
    BY <1>1, <1>3, <2>2, <2>5, <2>6, <2>7, LimitTypesNext DEF LimitBounds
<1>8. ASSUME NEW r \in Visit, Limiter!FallBack(r) PROVE LimitBounds'
  <2> DEFINE w == asked[r].on
  <2>1. now' = now /\ counter' = counter /\ failed' \in 0..MaxFailures /\ w \in Worker /\ now \in 0..MaxTime
    BY SMTT(30), <1>1, <1>8 DEF Limiter!FallBack, AskBound
  <2>2. PICK pc \in {"refused", "passed"}, at \in {asked[r].at, now}, by \in {asked[r].by, "memory"} :
            asked' = [asked EXCEPT ![r].pc = pc, ![r].at = at, ![r].by = by]
    <3>1. asked' = [asked EXCEPT ![r].pc = "refused"]
          \/ asked' = [asked EXCEPT ![r].pc = "passed", ![r].at = now, ![r].by = "memory"]
      BY <1>8 DEF Limiter!FallBack
    <3>2. asked' = [asked EXCEPT ![r].pc = "refused", ![r].at = asked[r].at, ![r].by = asked[r].by]
          \/ asked' = [asked EXCEPT ![r].pc = "passed", ![r].at = now, ![r].by = "memory"]
      BY <1>1, <3>1 DEF AskBound
    <3>3. QED
      BY <3>2
  <2>3. buckets' \in [Worker -> Seq(1..MaxTime)]
    <3>1. Limiter!Recent(w) \in Seq(1..MaxTime) /\ Append(Limiter!Recent(w), now) \in Seq(1..MaxTime)
      BY <1>1, <2>1, RecentTyped
    <3>2. buckets' = [buckets EXCEPT ![w] = Limiter!Recent(w)]
          \/ buckets' = [buckets EXCEPT ![w] = Append(Limiter!Recent(w), now)]
      BY <1>8 DEF Limiter!FallBack
    <3>3. QED
      BY <1>1, <2>1, <3>1, <3>2
  <2>4. asked' \in [Visit -> AskBound] /\ asked'[r].pc = pc /\ \A q \in Visit \ {r} : asked'[q] = asked[q]
    <3>1. asked[r] \in AskBound /\ at \in 0..MaxTime
      BY <1>1, <2>1 DEF AskBound
    <3>2. [asked[r] EXCEPT !.pc = pc, !.at = at, !.by = by] \in AskBound
      BY <3>1, <2>2 DEF AskBound
    <3>3. asked' = [asked EXCEPT ![r] = [asked[r] EXCEPT !.pc = pc, !.at = at, !.by = by]]
      BY <1>1, <2>2 DEF AskBound
    <3>4. [asked[r] EXCEPT !.pc = pc, !.at = at, !.by = by].pc = pc
      BY <3>1 DEF AskBound
    <3>5. QED
      BY <1>1, <3>2, <3>3, <3>4
  <2>5. Cardinality(Begun') \in Nat /\ Cardinality(Begun) <= Cardinality(Begun')
    <3>1. Begun \in SUBSET (Begun') /\ Begun' \in SUBSET Visit
      BY <2>4 DEF Begun
    <3>2. QED
      BY <3>1, VisitsAreFinite, FS_Subset, FS_CardinalityType
  <2>6. counter'.count <= Cardinality(Begun')
    BY <1>2, <1>3, <2>1, <2>5
  <2>7. QED
    BY <1>1, <2>1, <2>3, <2>4, <2>6, LimitTypesNext DEF LimitBounds
<1>9. QED
  BY <1>4, <1>5, <1>6, <1>7, <1>8 DEF Limiter!Next

----------------------------------------------------------------------------
\* Locks of jobs.
LEMMA LockAssumed == JobLock!LockAssumption
  BY ServicesAssumption

LockInv == JobLock!TypeOK /\ JobLock!MemoryServed
\* The invariant of the locks in memory holds initially,
LEMMA LockInvInitially == JobLock!Init => LockInv
<1> SUFFICES ASSUME JobLock!Init PROVE LockInv
  OBVIOUS
<1>1. jobs \in [Visit -> JobLock!States]
  BY DEF JobLock!Init, JobLock!States
<1>2. key \in BOOLEAN /\ memory \subseteq Worker
  BY DEF JobLock!Init
<1>3. failures \in 0..MaxFailures
  BY LockAssumed DEF JobLock!LockAssumption, JobLock!Init
<1>4. JobLock!MemoryServed
  BY DEF JobLock!Init, JobLock!MemoryServed
<1>5. QED
  BY <1>1, <1>2, <1>3, <1>4 DEF LockInv, JobLock!TypeOK
\* and every step keeps it.
LEMMA LockInvStep == LockInv /\ [JobLock!Next]_lockVars => LockInv'
<1> SUFFICES ASSUME LockInv, [JobLock!Next]_lockVars PROVE LockInv'
  OBVIOUS
<1> USE LockAssumed DEF JobLock!LockAssumption, LockInv, JobLock!TypeOK, JobLock!States, JobLock!Becomes
<1>1. CASE UNCHANGED lockVars
  BY <1>1 DEF lockVars, JobLock!MemoryServed, JobLock!Working
<1>2. ASSUME NEW j \in Visit, JobLock!TryRedis(j) PROVE LockInv'
  <2>1. JobLock!TypeOK'
    BY ZenonT(40), <1>2 DEF JobLock!TryRedis
  <2>2. \A i \in JobLock!Working : jobs'[i] = jobs[i]
    BY <1>2 DEF JobLock!TryRedis, JobLock!Working
  <2>3. JobLock!MemoryServed'
    BY <1>2, <2>2 DEF JobLock!TryRedis, JobLock!MemoryServed, JobLock!Working
  <2>4. QED
    BY <2>1, <2>3
<1>3. ASSUME NEW j \in Visit, JobLock!TryMemory(j) PROVE LockInv'
  <2>1. JobLock!TypeOK'
    BY <1>3 DEF JobLock!TryMemory
  <2>2. \A i \in JobLock!Working : jobs'[i] = jobs[i]
    BY <1>3 DEF JobLock!TryMemory, JobLock!Working
  <2>3. memory' = memory \/ (/\ memory' = memory \cup {jobs[j].on} /\ jobs'[j].pc = "working"
                             /\ jobs'[j].on = jobs[j].on /\ jobs'[j].by = "memory")
    BY <1>3 DEF JobLock!TryMemory
  <2>4. JobLock!MemoryServed'
    BY <1>3, <2>2, <2>3 DEF JobLock!MemoryServed, JobLock!Working
  <2>5. QED
    BY <2>1, <2>4
<1>4. ASSUME NEW j \in Visit, JobLock!Release(j) PROVE LockInv'
  <2>1. jobs' \in [Visit -> JobLock!States] /\ memory' \subseteq Worker
    BY <1>4 DEF JobLock!Release
  <2>5. key' \in BOOLEAN
    BY <1>4 DEF JobLock!Release
  <2>6. failures' \in 0..MaxFailures
    BY <1>4 DEF JobLock!Release
  <2>2. memory' = memory \ {jobs[j].on} /\ \A i \in Visit \ {j} : jobs'[i] = jobs[i]
    BY <1>4 DEF JobLock!Release
  <2>3. JobLock!MemoryServed'
    BY <2>2 DEF JobLock!MemoryServed, JobLock!Working
  <2>4. QED
    BY <2>1, <2>3, <2>5, <2>6
<1>5. QED
  BY <1>1, <1>2, <1>3, <1>4 DEF JobLock!Next

\* A worker's memory keeps no lock that none of its jobs has
\* (try_job_lock, release_job_lock).
THEOREM MemoryServedHolds == ServicesSpec => []MemoryServed
<1>1. ServicesInit => LockInv
  BY LockInvInitially DEF ServicesInit
<1>2. LockInv /\ [ServicesNext]_servicesVars => LockInv'
  BY LockInvStep, StepOrStutter
<1>3. LockInv => MemoryServed
  BY DEF MemoryServed, LockInv
<1>4. QED
  BY <1>1, <1>2, <1>3, PTL DEF ServicesSpec, servicesVars

----------------------------------------------------------------------------
\* Calls of language models.
LEMMA CallsAssumed == Llm!CallAssumption
  BY ServicesAssumption

CallPcs == {"new", "asks", "tries", "waits"} \cup Llm!Done
Calls ==
    [pc : CallPcs, profile : Profile \cup {None}, kind : Llm!Kinds, attempt : Nat, chunks : {0, 1}, from : SUBSET Nat]
Breaker == [failures : Nat, opened : {None} \cup Nat]
CallTyped ==
    /\ breaker \in [Profile -> Breaker]
    /\ recorded \in [Profile -> Seq({"success", "failure"})]
    /\ cached \in [profile : Profile \cup {None}, age : Nat]
    /\ calls \in [Visit -> Calls]
    /\ counted \in [Profile -> [calls : Nat, errors : Nat]]
\* The last results a breaker was told of are the failures it counts.
Failing(p) ==
    /\ breaker[p].failures <= Len(recorded[p])
    /\ \A i \in 1..Len(recorded[p]) :
         i > Len(recorded[p]) - breaker[p].failures => recorded[p][i] = "failure"
    /\ breaker[p].opened # None => breaker[p].failures >= Threshold
\* What a call has given its caller is of the attempt it is at.
Streams(c) ==
    /\ calls[c].pc \in {"new", "asks", "refused"} => calls[c].from = {} /\ calls[c].chunks = 0
    /\ calls[c].pc \in {"tries", "waits"} /\ calls[c].chunks = 0 => calls[c].from = {}
    /\ calls[c].pc = "tries" /\ calls[c].chunks = 1 => calls[c].from = {calls[c].attempt}
    /\ calls[c].pc = "waits" => calls[c].chunks = 0
    /\ \E n \in Nat : calls[c].from \subseteq {n}
    /\ calls[c].pc # "new" => calls[c].profile \in Profile
Ended(p)  == {c \in Visit : calls[c].profile = p /\ calls[c].pc \in Llm!Done}
Missed(p) == {c \in Visit : calls[c].profile = p /\ calls[c].pc \in Llm!Done \ {"answered"}}
CallInv ==
    /\ CallTyped /\ \A p \in Profile : Failing(p)
    /\ \A c \in Visit : Streams(c)
    /\ Llm!CallsCounted

\* The invariant of the calls holds initially.
LEMMA CallInvInitially == Llm!Init => CallInv
<1> SUFFICES ASSUME Llm!Init PROVE CallInv
  OBVIOUS
<1> USE CallsAssumed DEF Llm!CallAssumption
<1>1. calls \in [Visit -> Calls]
  BY DEF Llm!Init, Calls, CallPcs, Llm!Kinds
<1>2. breaker \in [Profile -> Breaker] /\ recorded \in [Profile -> Seq({"success", "failure"})]
  BY DEF Llm!Init, Breaker
<1>3. counted \in [Profile -> [calls : Nat, errors : Nat]] /\ cached \in [profile : Profile \cup {None}, age : Nat]
  BY DEF Llm!Init
<1>4. \A p \in Profile : Failing(p)
  BY DEF Llm!Init, Failing
<1>5. \A c \in Visit : Streams(c)
  BY DEF Llm!Init, Streams
<1>6. Llm!CallsCounted
  <2>1. \A p \in Profile : Ended(p) = {} /\ Missed(p) = {}
    BY DEF Llm!Init, Ended, Missed, Llm!Done
  <2>2. \A p \in Profile : counted[p].calls = 0 /\ counted[p].errors = 0
    BY DEF Llm!Init
  <2>3. QED
    BY <2>1, <2>2, FS_EmptySet, Counts DEF Llm!CallsCounted, Ended, Missed
<1>7. QED
  BY <1>1, <1>2, <1>3, <1>4, <1>5, <1>6 DEF CallInv, CallTyped

\* The breakers: what happens to one of them.
LEMMA AskedKeeps ==
    ASSUME CallTyped, \A p \in Profile : Failing(p), NEW q \in Profile,
           breaker' = Llm!Asked(breaker, q), recorded' = recorded
    PROVE  breaker' \in [Profile -> Breaker] /\ \A p \in Profile : Failing(p)'
<1>1. \A p \in Profile : breaker'[p] = breaker[p] \/ breaker'[p] = [failures |-> 0, opened |-> None]
  BY DEF Llm!Asked, CallTyped
<1>2. breaker' \in [Profile -> Breaker]
  BY DEF Llm!Asked, CallTyped, Breaker
<1>3. ASSUME NEW p \in Profile PROVE Failing(p)'
  <2>1. CASE breaker'[p] = breaker[p]
    BY <2>1 DEF Failing
  <2>2. CASE breaker'[p] = [failures |-> 0, opened |-> None]
    <3>1. Len(recorded[p]) \in Nat
      BY DEF CallTyped
    <3>2. QED
      BY <2>2, <3>1 DEF Failing
  <2>3. QED
    BY <1>1, <2>1, <2>2
<1>4. QED
  BY <1>2, <1>3
\* A success closes the breaker and clears its failures.
LEMMA SucceedKeeps ==
    ASSUME CallTyped, \A p \in Profile : Failing(p), NEW q \in Profile, Llm!Succeed(q)
    PROVE  /\ breaker' \in [Profile -> Breaker] /\ recorded' \in [Profile -> Seq({"success", "failure"})]
           /\ \A p \in Profile : Failing(p)'
<1>1. /\ breaker' = [breaker EXCEPT ![q] = [failures |-> 0, opened |-> None]]
      /\ recorded' = [recorded EXCEPT ![q] = Append(recorded[q], "success")]
  BY DEF Llm!Succeed
<1>2. recorded[q] \in Seq({"success", "failure"}) /\ Append(recorded[q], "success") \in Seq({"success", "failure"})
  BY DEF CallTyped
<1>3. breaker' \in [Profile -> Breaker] /\ recorded' \in [Profile -> Seq({"success", "failure"})]
  BY <1>1, <1>2 DEF CallTyped, Breaker
<1>4. ASSUME NEW p \in Profile PROVE Failing(p)'
  <2>1. CASE p = q
    <3>1. breaker'[p].failures = 0 /\ breaker'[p].opened = None /\ Len(recorded'[p]) \in Nat
      BY <1>1, <1>3, <2>1 DEF CallTyped
    <3>2. QED
      BY <3>1 DEF Failing
  <2>2. CASE p # q
    BY <1>1, <2>2 DEF Failing, CallTyped
  <2>3. QED
    BY <2>1, <2>2
<1>5. QED
  BY <1>3, <1>4
\* The last f + 1 of l + 1 results are the new one and the last f of l.
LEMMA LastOnes ==
    ASSUME NEW l \in Nat, NEW f \in Nat, NEW i \in 1..(l + 1), i > (l + 1) - (f + 1), i # l + 1
    PROVE  i \in 1..l /\ i > l - f
  OBVIOUS
\* A failure lengthens the run of failures the breaker counts.
LEMMA FailKeeps ==
    ASSUME CallTyped, \A p \in Profile : Failing(p), NEW q \in Profile, Llm!Fail(q)
    PROVE  /\ breaker' \in [Profile -> Breaker] /\ recorded' \in [Profile -> Seq({"success", "failure"})]
           /\ \A p \in Profile : Failing(p)'
<1> USE CallsAssumed DEF Llm!CallAssumption
<1> DEFINE n == breaker[q].failures + 1
           opened == IF n >= Threshold /\ breaker[q].opened = None THEN 0 ELSE breaker[q].opened
<1>1. /\ breaker' = [breaker EXCEPT ![q] = [failures |-> n, opened |-> opened]]
      /\ recorded' = [recorded EXCEPT ![q] = Append(recorded[q], "failure")]
  BY DEF Llm!Fail
<1>2. recorded[q] \in Seq({"success", "failure"}) /\ Append(recorded[q], "failure") \in Seq({"success", "failure"})
  BY DEF CallTyped
<1>3. breaker[q] \in Breaker
  BY DEF CallTyped
<1>4. [failures |-> n, opened |-> opened] \in Breaker
  BY <1>3 DEF Breaker
<1>5. breaker' \in [Profile -> Breaker] /\ recorded' \in [Profile -> Seq({"success", "failure"})]
  BY <1>1, <1>2, <1>4 DEF CallTyped
<1>6. ASSUME NEW p \in Profile PROVE Failing(p)'
  <2>1. CASE p = q
    <3>1. /\ breaker'[q].failures = n /\ breaker'[q].opened = opened
          /\ recorded'[q] = Append(recorded[q], "failure")
      BY <1>1 DEF CallTyped
    <3>2. Len(recorded'[q]) = Len(recorded[q]) + 1 /\ Len(recorded[q]) \in Nat
      BY <1>2, <3>1
    <3>3. ASSUME NEW i \in 1..Len(recorded'[q]), i > Len(recorded'[q]) - n
          PROVE  recorded'[q][i] = "failure"
      <4>1. CASE i = Len(recorded[q]) + 1
        BY <1>2, <3>1, <4>1
      <4>2. CASE i # Len(recorded[q]) + 1
        <5>1. i \in 1..Len(recorded[q]) /\ i > Len(recorded[q]) - breaker[q].failures
          <6>1. breaker[q].failures \in Nat
            BY <1>3 DEF Breaker
          <6>2. Len(recorded[q]) \in Nat /\ 1..Len(recorded'[q]) = 1..(Len(recorded[q]) + 1)
                /\ Len(recorded'[q]) - n = (Len(recorded[q]) + 1) - (breaker[q].failures + 1)
            BY <3>2
          <6>3. i \in 1..(Len(recorded[q]) + 1) /\ i > (Len(recorded[q]) + 1) - (breaker[q].failures + 1)
            BY <3>3, <6>2
          <6>4. QED
            BY <4>2, <6>1, <6>2, <6>3, LastOnes
        <5>2. recorded[q][i] = "failure"
          BY <5>1 DEF Failing
        <5>3. QED
          BY <1>2, <3>1, <5>1, <5>2
      <4>3. QED
        BY <4>1, <4>2
    <3>4. n <= Len(recorded'[q])
      BY <1>3, <3>2 DEF Failing, Breaker
    <3>5. opened # None => n >= Threshold
      <4>1. breaker[q].opened # None => breaker[q].failures >= Threshold
        BY DEF Failing
      <4>2. QED
        BY <1>3, <4>1 DEF Breaker
    <3>6. QED
      BY <2>1, <3>1, <3>3, <3>4, <3>5 DEF Failing
  <2>2. CASE p # q
    BY <1>1, <2>2 DEF Failing, CallTyped
  <2>3. QED
    BY <2>1, <2>2
<1>7. QED
  BY <1>5, <1>6

\* The metrics: a call that ends is counted.
LEMMA ObserveCounts ==
    ASSUME CallTyped, Llm!CallsCounted, NEW c \in Visit, calls[c].profile \in Profile, calls[c].pc \notin Llm!Done,
           NEW bad \in BOOLEAN, Llm!Observe(c, bad),
           \A d \in Visit \ {c} : calls'[d] = calls[d],
           calls'[c].profile = calls[c].profile, calls'[c].pc \in Llm!Done,
           bad <=> calls'[c].pc # "answered"
    PROVE  counted' \in [Profile -> [calls : Nat, errors : Nat]] /\ Llm!CallsCounted'
<1> DEFINE q == calls[c].profile
           e == IF bad THEN counted[q].errors + 1 ELSE counted[q].errors
<1>1. counted[q] \in [calls : Nat, errors : Nat]
  BY DEF CallTyped
<1> DEFINE r == [counted[q] EXCEPT !.calls = counted[q].calls + 1, !.errors = e]
<1>2. counted' = [counted EXCEPT ![q] = r]
  <2>1. counted' = [counted EXCEPT ![q].calls = counted[q].calls + 1, ![q].errors = e]
    BY <1>1 DEF Llm!Observe, CallTyped
  <2>2. [counted EXCEPT ![q].calls = counted[q].calls + 1, ![q].errors = e] = [counted EXCEPT ![q] = r]
    BY DEF CallTyped
  <2>3. QED
    BY <2>1, <2>2
<1>e. e \in Nat
  BY <1>1
<1>3. r \in [calls : Nat, errors : Nat] /\ r.calls = counted[q].calls + 1 /\ r.errors = e
  <2> HIDE DEF e
  <2>1. DOMAIN counted[q] = {"calls", "errors"} /\ counted[q].calls + 1 \in Nat
    BY <1>1
  <2>2. r.calls = counted[q].calls + 1 /\ r.errors = e
    BY <2>1
  <2>3. r \in [calls : Nat, errors : Nat]
    BY <1>1, <1>e, <2>1
  <2>4. QED
    BY <2>2, <2>3
<1> HIDE DEF r
<1>4. counted' \in [Profile -> [calls : Nat, errors : Nat]]
  <2>1. counted \in [Profile -> [calls : Nat, errors : Nat]]
    BY DEF CallTyped
  <2>2. QED
    BY <1>2, <1>3, <2>1
<1>5. ASSUME NEW p \in Profile
      PROVE  /\ counted'[p].calls = Cardinality(Ended(p)')
             /\ counted'[p].errors = Cardinality(Missed(p)')
  <2>1. /\ counted[p].calls = Cardinality(Ended(p)) /\ counted[p].errors = Cardinality(Missed(p))
    BY Counts DEF Llm!CallsCounted, Ended, Missed
  <2>2. IsFiniteSet(Ended(p)) /\ IsFiniteSet(Missed(p))
    BY VisitsAreFinite, FS_Subset DEF Ended, Missed
  <2>3. CASE p # q
    <3>1. Ended(p)' = Ended(p) /\ Missed(p)' = Missed(p)
      BY <2>3 DEF Ended, Missed
    <3>2. QED
      BY <1>2, <2>1, <2>3, <3>1 DEF CallTyped
  <2>4. CASE p = q
    <3>1. Ended(p)' = Ended(p) \cup {c} /\ c \notin Ended(p) /\ c \notin Missed(p)
      BY <2>4 DEF Ended, Missed
    <3>2. Missed(p)' = IF bad THEN Missed(p) \cup {c} ELSE Missed(p)
      BY <2>4 DEF Missed
    <3>3. counted'[p].calls = counted[p].calls + 1
          /\ counted'[p].errors = IF bad THEN counted[p].errors + 1 ELSE counted[p].errors
      BY <1>2, <1>3, <2>4 DEF CallTyped
    <3>4. Cardinality(Ended(p) \cup {c}) = Cardinality(Ended(p)) + 1
          /\ Cardinality(Missed(p) \cup {c}) = Cardinality(Missed(p)) + 1
      BY <2>2, <3>1, FS_AddElement
    <3>5. QED
      BY <2>1, <3>1, <3>2, <3>3, <3>4
  <2>5. QED
    BY <2>3, <2>4
<1>6. QED
  BY <1>4, <1>5, Counts DEF Llm!CallsCounted, Ended, Missed

\* A step that ends no call leaves the metrics right.
LEMMA CountsStay ==
    ASSUME Llm!CallsCounted, counted' = counted,
           \A c \in Visit : \/ calls'[c].profile = calls[c].profile /\ calls'[c].pc = calls[c].pc
                            \/ calls[c].pc \notin Llm!Done /\ calls'[c].pc \notin Llm!Done
    PROVE  Llm!CallsCounted'
<1>1. \A p \in Profile : Ended(p)' = Ended(p) /\ Missed(p)' = Missed(p)
  BY DEF Ended, Missed
<1>2. QED
  BY <1>1 DEF Llm!CallsCounted, Ended, Missed

\* What a provider's reply makes of an attempt.
LEMMA Outcomes == \A c \in Visit, reply \in Llm!Replies : Llm!Outcome(c, reply) \in {"answer", "again", "error"}
  BY DEF Llm!Outcome, Llm!ChatOutcome, Llm!StreamOutcome, Llm!OpenAiChat, Llm!OllamaChat, Llm!AnthropicChat,
     Llm!OpenAiStream, Llm!OllamaStream,
         Llm!AnthropicStream, Llm!StreamLines

\* One call moves, the others stay: what is asked of it alone.
LEMMA OneMoves ==
    ASSUME CallTyped, \A c \in Visit : Streams(c), NEW c \in Visit, NEW next \in Calls,
           calls' = [calls EXCEPT ![c] = next], Streams(c)'
    PROVE  /\ calls' \in [Visit -> Calls] /\ \A d \in Visit : Streams(d)'
           /\ calls'[c] = next /\ \A d \in Visit \ {c} : calls'[d] = calls[d]
<1>1. calls' \in [Visit -> Calls] /\ calls'[c] = next /\ \A d \in Visit \ {c} : calls'[d] = calls[d]
  BY DEF CallTyped
<1>2. ASSUME NEW d \in Visit \ {c} PROVE Streams(d)'
  BY <1>1, <1>2 DEF Streams
<1>3. QED
  BY <1>1, <1>2

\* The age of an opened breaker stays a number.
LEMMA OlderTyped ==
    ASSUME NEW limit \in Nat
    PROVE  /\ \A age \in {None} \cup Nat : Llm!Older(age, limit) \in {None} \cup Nat
           /\ \A age \in Nat : Llm!Older(age, limit) \in Nat
  BY CallsAssumed DEF Llm!CallAssumption, Llm!Older
\* Every step keeps the invariant of the calls,
LEMMA CallInvStep == CallInv /\ [Llm!Next]_llmVars => CallInv'
<1> SUFFICES ASSUME CallInv, [Llm!Next]_llmVars PROVE CallInv'
  OBVIOUS
<1> USE CallsAssumed DEF Llm!CallAssumption
<1>0. CallTyped /\ (\A p \in Profile : Failing(p)) /\ (\A c \in Visit : Streams(c)) /\ Llm!CallsCounted
  BY DEF CallInv
<1>a. ASSUME NEW c \in Visit
      PROVE  /\ calls[c] \in Calls /\ calls[c].attempt \in Nat /\ calls[c].attempt + 1 \in Nat
             /\ calls[c].chunks \in {0, 1} /\ calls[c].from \cup {calls[c].attempt} \in SUBSET Nat
  <2>1. calls[c] \in Calls
    BY <1>0 DEF CallTyped
  <2>2. calls[c].attempt \in Nat /\ calls[c].from \in SUBSET Nat /\ calls[c].chunks \in {0, 1}
    BY <2>1 DEF Calls
  <2>3. QED
    BY <2>1, <2>2
<1>c. ASSUME calls' = calls PROVE (\A c \in Visit : Streams(c)') /\ calls' \in [Visit -> Calls]
  BY <1>c, <1>0 DEF Streams, CallTyped
<1>d. ASSUME calls' = calls, counted' = counted PROVE Llm!CallsCounted' /\ counted' \in [Profile -> [calls : Nat, errors : Nat]]
  BY <1>d, <1>0, CountsStay DEF CallTyped
<1>b. ASSUME breaker' = breaker, recorded' = recorded
      PROVE  breaker' \in [Profile -> Breaker] /\ recorded' \in [Profile -> Seq({"success", "failure"})]
             /\ \A p \in Profile : Failing(p)'
  BY <1>b, <1>0 DEF CallTyped, Failing
<1>1. CASE UNCHANGED llmVars
  BY <1>0, <1>1, <1>b, <1>c, <1>d DEF llmVars, CallInv, CallTyped
<1>2. CASE Llm!Tick
  <2>1. \A p \in Profile : /\ breaker'[p].failures = breaker[p].failures
                           /\ breaker'[p].opened # None => breaker[p].opened # None
    BY SMTT(30), <1>2, <1>0 DEF Llm!Tick, Llm!Older, CallTyped, Breaker
  <2>2. breaker' \in [Profile -> Breaker]
    <3>1. ASSUME NEW p \in Profile PROVE [breaker[p] EXCEPT !.opened = Llm!Older(@, Cooldown)] \in Breaker
      <4>1. breaker[p] \in Breaker
        BY <1>0 DEF CallTyped
      <4>2. Llm!Older(breaker[p].opened, Cooldown) \in {None} \cup Nat
        BY <4>1, OlderTyped DEF Breaker
      <4>3. QED
        BY <4>1, <4>2 DEF Breaker
    <3>2. QED
      BY <1>2, <3>1 DEF Llm!Tick
  <2>5. cached' \in [profile : Profile \cup {None}, age : Nat]
    <3>1. cached.age \in Nat /\ cached \in [profile : Profile \cup {None}, age : Nat]
      BY <1>0 DEF CallTyped
    <3>2. Llm!Older(cached.age, ClientTtl) \in Nat
      BY <3>1, OlderTyped
    <3>3. QED
      BY <1>2, <3>1, <3>2 DEF Llm!Tick
  <2>3. \A p \in Profile : Failing(p)'
    BY <1>2, <1>0, <2>1 DEF Llm!Tick, Failing
  <2>4. QED
    BY <1>2, <1>0, <1>c, <1>d, <2>2, <2>3, <2>5 DEF Llm!Tick, CallInv, CallTyped
<1>3. CASE Llm!InvalidateClients
  BY <1>0, <1>3, <1>b, <1>c, <1>d DEF Llm!InvalidateClients, CallInv, CallTyped
<1>4. ASSUME NEW c \in Visit, NEW kind \in Llm!Kinds, NEW p \in Profile, Llm!NewClient(c, p, kind) PROVE CallInv'
  <2> DEFINE next == [calls[c] EXCEPT !.pc = "asks", !.profile = p, !.kind = kind]
  <2>1. next \in Calls /\ next.pc = "asks" /\ next.profile = p /\ next.from = calls[c].from /\ next.chunks = calls[c].chunks
    BY <1>a DEF Calls, CallPcs
  <2>2. calls' = [calls EXCEPT ![c] = next] /\ calls[c].pc = "new"
    BY <1>4 DEF Llm!NewClient
  <2>3. calls'[c] = next
    BY <1>0, <2>2 DEF CallTyped
  <2>4. Streams(c)'
    BY <1>0, <2>1, <2>2, <2>3 DEF Streams
  <2>5. calls' \in [Visit -> Calls] /\ (\A d \in Visit : Streams(d)') /\ \A d \in Visit \ {c} : calls'[d] = calls[d]
    BY <1>0, <2>1, <2>2, <2>4, OneMoves
  <2>6. Llm!CallsCounted'
    BY <1>0, <1>4, <2>1, <2>2, <2>3, <2>5, CountsStay DEF Llm!NewClient, Llm!Done
  <2>7. breaker' \in [Profile -> Breaker] /\ \A q \in Profile : Failing(q)'
    BY <1>0, <1>4, AskedKeeps DEF Llm!NewClient
  <2>8. QED
    BY <1>0, <1>4, <2>5, <2>6, <2>7 DEF Llm!NewClient, CallInv, CallTyped
<1>5. ASSUME NEW c \in Visit, NEW kind \in Llm!Kinds, Llm!OldClient(c, kind) PROVE CallInv'
  <2> DEFINE next == [calls[c] EXCEPT !.pc = "asks", !.profile = cached.profile, !.kind = kind]
  <2>1. next \in Calls /\ next.pc = "asks" /\ next.profile = cached.profile /\ next.from = calls[c].from
        /\ next.chunks = calls[c].chunks
    BY <1>a, <1>0 DEF Calls, CallPcs, CallTyped
  <2>2. calls' = [calls EXCEPT ![c] = next] /\ calls[c].pc = "new" /\ cached.profile \in Profile
    BY <1>5, <1>0 DEF Llm!OldClient, CallTyped
  <2>3. calls'[c] = next
    BY <1>0, <2>2 DEF CallTyped
  <2>4. Streams(c)'
    BY <1>0, <2>1, <2>2, <2>3 DEF Streams
  <2>5. calls' \in [Visit -> Calls] /\ (\A d \in Visit : Streams(d)') /\ \A d \in Visit \ {c} : calls'[d] = calls[d]
    BY <1>0, <2>1, <2>2, <2>4, OneMoves
  <2>6. Llm!CallsCounted'
    BY <1>0, <1>5, <2>1, <2>2, <2>3, <2>5, CountsStay DEF Llm!OldClient, Llm!Done
  <2>8. QED
    BY <1>0, <1>5, <1>b, <2>5, <2>6 DEF Llm!OldClient, CallInv, CallTyped
<1>6. ASSUME NEW c \in Visit, Llm!Admit(c) PROVE CallInv'
  <2> DEFINE next == [calls[c] EXCEPT !.pc = "tries", !.attempt = 1]
  <2>1. next \in Calls /\ next.pc = "tries" /\ next.profile = calls[c].profile /\ next.from = calls[c].from
        /\ next.chunks = calls[c].chunks
    BY <1>a DEF Calls, CallPcs
  <2>2. calls' = [calls EXCEPT ![c] = next] /\ calls[c].pc = "asks" /\ calls[c].profile \in Profile
    BY <1>6, <1>0 DEF Llm!Admit, CallTyped, Streams
  <2>3. calls'[c] = next
    BY <1>0, <2>2 DEF CallTyped
  <2>4. Streams(c)'
    BY <1>0, <2>1, <2>2, <2>3 DEF Streams
  <2>5. calls' \in [Visit -> Calls] /\ (\A d \in Visit : Streams(d)') /\ \A d \in Visit \ {c} : calls'[d] = calls[d]
    BY <1>0, <2>1, <2>2, <2>4, OneMoves
  <2>6. Llm!CallsCounted'
    BY <1>0, <1>6, <2>1, <2>2, <2>3, <2>5, CountsStay DEF Llm!Admit, Llm!Done
  <2>7. breaker' \in [Profile -> Breaker] /\ \A q \in Profile : Failing(q)'
    BY <1>0, <1>6, <2>2, AskedKeeps DEF Llm!Admit
  <2>8. QED
    BY <1>0, <1>6, <2>5, <2>6, <2>7 DEF Llm!Admit, CallInv, CallTyped
<1>7. ASSUME NEW c \in Visit, Llm!Refuse(c) PROVE CallInv'
  <2> DEFINE next == [calls[c] EXCEPT !.pc = "refused"]
  <2>1. next \in Calls /\ next.pc = "refused" /\ next.profile = calls[c].profile /\ next.from = calls[c].from
        /\ next.chunks = calls[c].chunks
    BY <1>a DEF Calls, CallPcs, Llm!Done
  <2>2. calls' = [calls EXCEPT ![c] = next] /\ calls[c].pc = "asks" /\ calls[c].profile \in Profile
    BY <1>7, <1>0 DEF Llm!Refuse, CallTyped, Streams
  <2>3. calls'[c] = next
    BY <1>0, <2>2 DEF CallTyped
  <2>4. Streams(c)'
    BY <1>0, <2>1, <2>2, <2>3 DEF Streams
  <2>5. calls' \in [Visit -> Calls] /\ (\A d \in Visit : Streams(d)') /\ \A d \in Visit \ {c} : calls'[d] = calls[d]
    BY <1>0, <2>1, <2>2, <2>4, OneMoves
  <2>6. counted' \in [Profile -> [calls : Nat, errors : Nat]] /\ Llm!CallsCounted'
    BY <1>0, <1>7, <2>1, <2>2, <2>3, <2>5, ObserveCounts DEF Llm!Refuse, Llm!Done
  <2>8. QED
    BY <1>0, <1>7, <1>b, <2>5, <2>6 DEF Llm!Refuse, CallInv, CallTyped
<1>8. ASSUME NEW c \in Visit, Llm!Chunk(c) PROVE CallInv'
  <2> DEFINE next == [calls[c] EXCEPT !.chunks = 1, !.from = calls[c].from \cup {calls[c].attempt}]
  <2>1. /\ next \in Calls /\ next.pc = calls[c].pc /\ next.profile = calls[c].profile
        /\ next.from = calls[c].from \cup {calls[c].attempt} /\ next.chunks = 1 /\ next.attempt = calls[c].attempt
        /\ next.attempt \in Nat
    BY <1>a DEF Calls, CallPcs
  <2>2. calls' = [calls EXCEPT ![c] = next]
    BY <1>8, <1>0 DEF Llm!Chunk, CallTyped
  <2>3. calls'[c] = next /\ calls[c].pc = "tries" /\ calls[c].from = {} /\ calls[c].profile \in Profile
    BY <1>8, <1>0, <2>2 DEF CallTyped, Llm!Chunk, Streams
  <2>4. Streams(c)'
    BY <2>1, <2>3 DEF Streams
  <2>5. calls' \in [Visit -> Calls] /\ (\A d \in Visit : Streams(d)') /\ \A d \in Visit \ {c} : calls'[d] = calls[d]
    BY <1>0, <2>1, <2>2, <2>4, OneMoves
  <2>6. Llm!CallsCounted'
    BY <1>0, <1>8, <2>1, <2>2, <2>3, <2>5, CountsStay DEF Llm!Chunk, Llm!Done
  <2>8. QED
    BY <1>0, <1>8, <1>b, <2>5, <2>6 DEF Llm!Chunk, CallInv, CallTyped
<1>9. ASSUME NEW c \in Visit, Llm!TryAgain(c) PROVE CallInv'
  <2> DEFINE next == [calls[c] EXCEPT !.pc = "tries", !.attempt = calls[c].attempt + 1]
  <2>1. next \in Calls /\ next.pc = "tries" /\ next.profile = calls[c].profile /\ next.from = calls[c].from
        /\ next.chunks = calls[c].chunks
    BY <1>a DEF Calls, CallPcs
  <2>2. calls' = [calls EXCEPT ![c] = next]
    BY <1>9, <1>0 DEF Llm!TryAgain, CallTyped
  <2>3. calls'[c] = next /\ calls[c].pc = "waits" /\ calls[c].from = {} /\ calls[c].chunks = 0 /\ calls[c].profile \in Profile
    BY <1>0, <1>9, <2>2 DEF CallTyped, Llm!TryAgain, Streams
  <2>4. Streams(c)'
    BY <1>0, <2>1, <2>3 DEF Streams
  <2>5. calls' \in [Visit -> Calls] /\ (\A d \in Visit : Streams(d)') /\ \A d \in Visit \ {c} : calls'[d] = calls[d]
    BY <1>0, <2>1, <2>2, <2>4, OneMoves
  <2>6. Llm!CallsCounted'
    BY <1>0, <1>9, <2>1, <2>2, <2>3, <2>5, CountsStay DEF Llm!TryAgain, Llm!Done
  <2>8. QED
    BY <1>0, <1>9, <1>b, <2>5, <2>6 DEF Llm!TryAgain, CallInv, CallTyped
<1>10. ASSUME NEW c \in Visit, Llm!Abandon(c) PROVE CallInv'
  <2> DEFINE next == [calls[c] EXCEPT !.pc = "abandoned", !.attempt = 0]
  <2>1. next \in Calls /\ next.pc = "abandoned" /\ next.profile = calls[c].profile /\ next.from = calls[c].from
        /\ next.chunks = calls[c].chunks
    BY <1>a DEF Calls, CallPcs, Llm!Done
  <2>2. calls' = [calls EXCEPT ![c] = next]
    BY <1>10, <1>0 DEF Llm!Abandon, CallTyped
  <2>3. calls'[c] = next /\ calls[c].pc \in {"tries", "waits"} /\ calls[c].profile \in Profile
    BY <1>0, <1>10, <2>2 DEF CallTyped, Llm!Abandon, Streams
  <2>4. Streams(c)'
    BY <1>0, <2>1, <2>3 DEF Streams
  <2>5. calls' \in [Visit -> Calls] /\ (\A d \in Visit : Streams(d)') /\ \A d \in Visit \ {c} : calls'[d] = calls[d]
    BY <1>0, <2>1, <2>2, <2>4, OneMoves
  <2>6. counted' \in [Profile -> [calls : Nat, errors : Nat]] /\ Llm!CallsCounted'
    BY <1>0, <1>10, <2>1, <2>3, <2>5, ObserveCounts DEF Llm!Abandon, Llm!Done
  <2>8. QED
    BY <1>0, <1>10, <1>b, <2>5, <2>6 DEF Llm!Abandon, CallInv, CallTyped
<1>11. ASSUME NEW c \in Visit, NEW reply \in Llm!Replies, Llm!Answer(c, reply) PROVE CallInv'
  <2> DEFINE next == [calls[c] EXCEPT !.pc = "answered", !.attempt = 0, !.from = calls[c].from \cup {calls[c].attempt}]
  <2>1. /\ next \in Calls /\ next.pc = "answered" /\ next.profile = calls[c].profile
        /\ next.from = calls[c].from \cup {calls[c].attempt} /\ calls[c].attempt \in Nat /\ calls[c].chunks \in {0, 1}
    BY <1>a DEF Calls, CallPcs, Llm!Done
  <2>2. calls' = [calls EXCEPT ![c] = next]
    BY <1>11, <1>0 DEF Llm!Answer, CallTyped
  <2>3. calls'[c] = next /\ calls[c].pc = "tries" /\ calls[c].profile \in Profile
    BY <1>0, <1>11, <2>2 DEF CallTyped, Llm!Answer, Streams
  <2>4. Streams(c)'
    <3>1. calls[c].from \subseteq {calls[c].attempt}
      BY <1>0, <2>1, <2>3 DEF Streams
    <3>2. next.from \subseteq {calls[c].attempt}
      BY <2>1, <3>1
    <3>3. QED
      BY <2>1, <2>3, <3>2 DEF Streams
  <2>5. calls' \in [Visit -> Calls] /\ (\A d \in Visit : Streams(d)') /\ \A d \in Visit \ {c} : calls'[d] = calls[d]
    BY <1>0, <2>1, <2>2, <2>4, OneMoves
  <2>6. counted' \in [Profile -> [calls : Nat, errors : Nat]] /\ Llm!CallsCounted'
    BY <1>0, <1>11, <2>1, <2>3, <2>5, ObserveCounts DEF Llm!Answer, Llm!Done
  <2>7. breaker' \in [Profile -> Breaker] /\ recorded' \in [Profile -> Seq({"success", "failure"})]
        /\ \A p \in Profile : Failing(p)'
    BY <1>0, <1>11, <2>3, SucceedKeeps DEF Llm!Answer
  <2>8. QED
    BY <1>0, <1>11, <2>5, <2>6, <2>7 DEF Llm!Answer, CallInv, CallTyped
<1>12. ASSUME NEW c \in Visit, NEW reply \in Llm!Replies, Llm!Error(c, reply) PROVE CallInv'
  <2>0. calls[c].pc = "tries" /\ calls[c].profile \in Profile /\ cached' = cached
    BY <1>0, <1>12 DEF Llm!Error, Streams
  <2>1. CASE Llm!Retries(c, Llm!Outcome(c, reply))
    <3> DEFINE next == [calls[c] EXCEPT !.pc = "waits"]
    <3>1. next \in Calls /\ next.pc = "waits" /\ next.profile = calls[c].profile /\ next.from = calls[c].from
          /\ next.chunks = calls[c].chunks
      BY <1>a DEF Calls, CallPcs
    <3>2. calls' = [calls EXCEPT ![c] = next] /\ UNCHANGED <<breaker, recorded, counted>>
      BY <1>12, <1>0, <2>1 DEF Llm!Error, CallTyped
    <3>3. calls'[c] = next /\ calls[c].chunks = 0 /\ calls[c].from = {}
      BY <1>0, <2>0, <2>1, <3>2 DEF CallTyped, Llm!Retries, Streams
    <3>4. Streams(c)'
      BY <1>0, <2>0, <3>1, <3>3 DEF Streams
    <3>5. calls' \in [Visit -> Calls] /\ (\A d \in Visit : Streams(d)') /\ \A d \in Visit \ {c} : calls'[d] = calls[d]
      BY <1>0, <3>1, <3>2, <3>4, OneMoves
    <3>6. Llm!CallsCounted'
      BY <1>0, <2>0, <3>1, <3>2, <3>3, <3>5, CountsStay DEF Llm!Done
    <3>7. QED
      BY <1>0, <1>b, <2>0, <3>2, <3>5, <3>6 DEF CallInv, CallTyped
  <2>2. CASE ~Llm!Retries(c, Llm!Outcome(c, reply))
    <3> DEFINE next == [calls[c] EXCEPT !.pc = "failed", !.attempt = 0]
    <3>1. next \in Calls /\ next.pc = "failed" /\ next.profile = calls[c].profile /\ next.from = calls[c].from
          /\ next.chunks = calls[c].chunks
      BY <1>a DEF Calls, CallPcs, Llm!Done
    <3>2. calls' = [calls EXCEPT ![c] = next] /\ Llm!Fail(calls[c].profile) /\ Llm!Observe(c, TRUE)
      BY <1>12, <1>0, <2>2 DEF Llm!Error, CallTyped
    <3>3. calls'[c] = next
      BY <1>0, <3>2 DEF CallTyped
    <3>4. Streams(c)'
      BY <1>0, <2>0, <3>1, <3>3 DEF Streams
    <3>5. calls' \in [Visit -> Calls] /\ (\A d \in Visit : Streams(d)') /\ \A d \in Visit \ {c} : calls'[d] = calls[d]
      BY <1>0, <3>1, <3>2, <3>4, OneMoves
    <3>6. counted' \in [Profile -> [calls : Nat, errors : Nat]] /\ Llm!CallsCounted'
      BY <1>0, <2>0, <3>1, <3>2, <3>3, <3>5, ObserveCounts DEF Llm!Done
    <3>7. breaker' \in [Profile -> Breaker] /\ recorded' \in [Profile -> Seq({"success", "failure"})]
          /\ \A p \in Profile : Failing(p)'
      BY <1>0, <2>0, <3>2, FailKeeps
    <3>8. QED
      BY <1>0, <2>0, <3>5, <3>6, <3>7 DEF CallInv, CallTyped
  <2>3. QED
    BY <2>1, <2>2
<1>13. QED
  BY <1>1, <1>2, <1>3, <1>4, <1>5, <1>6, <1>7, <1>8, <1>9, <1>10, <1>11, <1>12 DEF Llm!Next

\* and it implies what CallsAreSound says.
LEMMA CallInvSuffices == CallInv => Llm!OpenAfterFailures /\ Llm!OneAnswer /\ Llm!CallsCounted
<1> SUFFICES ASSUME CallInv PROVE Llm!OpenAfterFailures /\ Llm!OneAnswer /\ Llm!CallsCounted
  OBVIOUS
<1>1. ASSUME NEW p \in Profile, breaker[p].opened # None
      PROVE  /\ Len(recorded[p]) >= Threshold
             /\ \A i \in (Len(recorded[p]) - Threshold + 1)..Len(recorded[p]) : recorded[p][i] = "failure"
  <2>1. breaker[p].failures \in Nat /\ Len(recorded[p]) \in Nat /\ Threshold \in Nat
    BY CallsAssumed DEF CallInv, CallTyped, Breaker, Llm!CallAssumption
  <2>2. breaker[p].failures >= Threshold /\ breaker[p].failures <= Len(recorded[p])
    BY <1>1 DEF CallInv, Failing
  <2>3. ASSUME NEW i \in (Len(recorded[p]) - Threshold + 1)..Len(recorded[p])
        PROVE  i \in 1..Len(recorded[p]) /\ i > Len(recorded[p]) - breaker[p].failures
    BY <2>1, <2>2
  <2>4. QED
    BY <2>1, <2>2, <2>3 DEF CallInv, Failing
<1>2. ASSUME NEW c \in Visit
      PROVE  Cardinality(calls[c].from) <= 1
  <2>1. PICK n \in Nat : calls[c].from \subseteq {n}
    BY DEF CallInv, Streams
  <2>2. calls[c].from = {} \/ calls[c].from = {n}
    BY <2>1
  <2>3. QED
    BY <2>2, FS_EmptySet, FS_Singleton
<1>3. QED
  BY <1>1, <1>2, Counts DEF CallInv, Llm!OpenAfterFailures, Llm!OneAnswer

\* A breaker is open only after Threshold failures in a row, a caller is given
\* the text of one attempt and its call is counted once (LLMCircuitBreaker, RetryLLMClient,
\* LLMTaskClient).
THEOREM CallsAreSoundHolds == ServicesSpec => []CallsAreSound
<1>1. ServicesInit => CallInv
  BY CallInvInitially DEF ServicesInit
<1>2. CallInv /\ [ServicesNext]_servicesVars => CallInv'
  BY CallInvStep, StepOrStutter
<1>3. CallInv => CallsAreSound
  BY CallInvSuffices DEF CallsAreSound
<1>4. QED
  BY <1>1, <1>2, <1>3, PTL DEF ServicesSpec, servicesVars

\* The numbers of the calls stay within their bounds: ages, attempts, and the
\* failures of a breaker, which are those of calls that have failed.
Lost == {c \in Visit : calls[c].pc = "failed"}
Aged(b) == b.opened \in {None} \cup 0..Cooldown
Tried(call1) ==
    /\ call1.attempt \in 0..MaxAttempts /\ call1.from \subseteq 1..MaxAttempts
    /\ call1.pc = "tries" => call1.attempt > 0
    /\ call1.pc = "waits" => call1.attempt < MaxAttempts
CallBounds ==
    /\ \A p \in Profile : Aged(breaker[p]) /\ breaker[p].failures <= Cardinality(Lost)
    /\ cached.age \in 0..ClientTtl
    /\ \A c \in Visit : Tried(calls[c])

\* The bounds hold initially.
LEMMA CallBoundsInitially == Llm!Init => CallBounds
<1> SUFFICES ASSUME Llm!Init PROVE CallBounds
  OBVIOUS
<1> USE CallsAssumed DEF Llm!CallAssumption
<1>1. Lost = {}
  BY DEF Llm!Init, Lost
<1>2. \A p \in Profile : Aged(breaker[p]) /\ breaker[p].failures <= Cardinality(Lost)
  BY <1>1, FS_EmptySet DEF Llm!Init, Aged
<1>3. cached.age \in 0..ClientTtl
  BY DEF Llm!Init
<1>4. \A c \in Visit : Tried(calls[c])
  BY DEF Llm!Init, Tried
<1>5. QED
  BY <1>2, <1>3, <1>4 DEF CallBounds

\* A call that moves on is never one that had failed, and no other moves.
LEMMA LostStay ==
    ASSUME CallTyped, NEW c \in Visit, calls[c].pc # "failed", \A d \in Visit \ {c} : calls'[d] = calls[d]
    PROVE  /\ Cardinality(Lost) \in Nat /\ Cardinality(Lost') \in Nat
           /\ Cardinality(Lost) <= Cardinality(Lost')
           /\ calls'[c].pc = "failed" => Cardinality(Lost') = Cardinality(Lost) + 1
<1>1. Lost \in SUBSET Visit /\ Lost' \in SUBSET Visit /\ Lost \in SUBSET (Lost') /\ c \notin Lost
  BY DEF Lost
<1>2. IsFiniteSet(Lost) /\ IsFiniteSet(Lost')
  BY <1>1, VisitsAreFinite, FS_Subset
<1>3. calls'[c].pc = "failed" => Lost' = Lost \cup {c}
  BY DEF Lost
<1>4. QED
  BY <1>1, <1>2, <1>3, FS_Subset, FS_CardinalityType, FS_AddElement

\* A breaker that is closed, or stays as it is, is within its bounds.
LEMMA BreakersStay ==
    ASSUME CallTyped, CallBounds, Cardinality(Lost) \in Nat, Cardinality(Lost') \in Nat,
           Cardinality(Lost) <= Cardinality(Lost'),
           \A p \in Profile : breaker'[p] = breaker[p] \/ breaker'[p] = [failures |-> 0, opened |-> None]
    PROVE  \A p \in Profile : Aged(breaker'[p]) /\ breaker'[p].failures <= Cardinality(Lost')
<1>1. SUFFICES ASSUME NEW p \in Profile
               PROVE  Aged(breaker'[p]) /\ breaker'[p].failures <= Cardinality(Lost')
  OBVIOUS
<1>2. breaker[p].failures \in Nat /\ breaker[p].failures <= Cardinality(Lost) /\ Aged(breaker[p])
  BY DEF CallTyped, CallBounds, Breaker
<1>3. CASE breaker'[p] = breaker[p]
  BY <1>2, <1>3
<1>4. CASE breaker'[p] = [failures |-> 0, opened |-> None]
  BY <1>4 DEF Aged
<1>5. QED
  BY <1>3, <1>4

\* A call that moves as it may is within its bounds, and so are the others.
LEMMA TriesStay ==
    ASSUME CallBounds, NEW c \in Visit, \A d \in Visit \ {c} : calls'[d] = calls[d], Tried(calls'[c])
    PROVE  \A d \in Visit : Tried(calls'[d])
  BY DEF CallBounds

\* What is asked of the breaker only closes it.
LEMMA AskedCloses ==
    ASSUME CallTyped, NEW q \in Profile, breaker' = Llm!Asked(breaker, q)
    PROVE  \A p \in Profile : breaker'[p] = breaker[p] \/ breaker'[p] = [failures |-> 0, opened |-> None]
  BY DEF Llm!Asked, CallTyped

\* Every step keeps the bounds of the calls.
LEMMA CallBoundsStep == CallInv /\ CallBounds /\ [Llm!Next]_llmVars => CallBounds'
<1> SUFFICES ASSUME CallInv, CallBounds, [Llm!Next]_llmVars PROVE CallBounds'
  OBVIOUS
<1> USE CallsAssumed DEF Llm!CallAssumption
<1>0. CallTyped
  BY DEF CallInv
<1>1. Cardinality(Lost) \in Nat /\ IsFiniteSet(Lost)
  <2>1. Lost \in SUBSET Visit
    BY DEF Lost
  <2>2. QED
    BY <2>1, VisitsAreFinite, FS_Subset, FS_CardinalityType
<1>2. ASSUME NEW c \in Visit
      PROVE  /\ calls[c] \in Calls /\ calls[c].attempt \in 0..MaxAttempts /\ calls[c].from \subseteq 1..MaxAttempts
             /\ calls[c].pc = "tries" => calls[c].attempt \in 1..MaxAttempts
             /\ calls[c].pc = "waits" => calls[c].attempt < MaxAttempts
             /\ calls[c].pc # "new" => calls[c].profile \in Profile
  BY <1>0 DEF CallTyped, CallBounds, Tried, CallInv, Streams
<1>3. ASSUME calls' = calls PROVE Lost' = Lost /\ \A c \in Visit : Tried(calls'[c])
  BY <1>3 DEF Lost, CallBounds
<1>4. CASE UNCHANGED llmVars
  BY <1>3, <1>4 DEF llmVars, CallBounds
<1>5. CASE Llm!Tick
  <2>1. calls' = calls
    BY <1>5 DEF Llm!Tick
  <2>2. ASSUME NEW p \in Profile PROVE Aged(breaker'[p]) /\ breaker'[p].failures = breaker[p].failures
    <3>1. breaker[p] \in Breaker /\ Aged(breaker[p])
      BY <1>0 DEF CallTyped, CallBounds
    <3>2. breaker'[p] = [breaker[p] EXCEPT !.opened = Llm!Older(breaker[p].opened, Cooldown)]
      BY <1>5 DEF Llm!Tick
    <3>3. Llm!Older(breaker[p].opened, Cooldown) \in {None} \cup 0..Cooldown
      BY <3>1 DEF Aged, Llm!Older
    <3>4. QED
      BY <3>1, <3>2, <3>3 DEF Aged, Breaker
  <2>3. cached'.age \in 0..ClientTtl
    <3>1. cached' = [cached EXCEPT !.age = Llm!Older(cached.age, ClientTtl)] /\ cached.age \in 0..ClientTtl
      BY <1>5 DEF Llm!Tick, CallBounds
    <3>2. Llm!Older(cached.age, ClientTtl) \in 0..ClientTtl
      BY <3>1 DEF Llm!Older
    <3>3. QED
      BY <1>0, <3>1, <3>2 DEF CallTyped
  <2>4. QED
    BY <1>3, <2>1, <2>2, <2>3 DEF CallBounds
<1>6. CASE Llm!InvalidateClients
  <2>1. calls' = calls /\ breaker' = breaker /\ cached'.age = 0
    BY <1>6 DEF Llm!InvalidateClients
  <2>2. QED
    BY <1>3, <2>1 DEF CallBounds
<1>7. ASSUME NEW c \in Visit, NEW next,
             calls' = [calls EXCEPT ![c] = next], calls[c].pc # "failed", Tried(next), cached'.age \in 0..ClientTtl,
             \A p \in Profile : breaker'[p] = breaker[p] \/ breaker'[p] = [failures |-> 0, opened |-> None]
      PROVE  CallBounds'
  <2>1. calls'[c] = next /\ \A d \in Visit \ {c} : calls'[d] = calls[d]
    BY <1>0, <1>7 DEF CallTyped
  <2>2. /\ Cardinality(Lost') \in Nat /\ Cardinality(Lost) <= Cardinality(Lost')
    BY <1>0, <1>7, <2>1, LostStay
  <2>3. QED
    BY <1>0, <1>1, <1>7, <2>1, <2>2, BreakersStay, TriesStay DEF CallBounds
<1>8. cached.age \in 0..ClientTtl /\ MaxAttempts \in Nat \ {0}
  BY DEF CallBounds
<1>9. ASSUME NEW c \in Visit, NEW p \in Profile, NEW kind \in Llm!Kinds, Llm!NewClient(c, p, kind) PROVE CallBounds'
  <2> DEFINE next == [calls[c] EXCEPT !.pc = "asks", !.profile = p, !.kind = kind]
  <2>1. calls' = [calls EXCEPT ![c] = next] /\ calls[c].pc = "new" /\ cached'.age = 0
        /\ breaker' = Llm!Asked(breaker, p)
    BY <1>9 DEF Llm!NewClient
  <2>2. Tried(next)
    BY <1>2 DEF Tried, Calls
  <2>3. cached'.age \in 0..ClientTtl
    BY <2>1
  <2>4. \A q \in Profile : breaker'[q] = breaker[q] \/ breaker'[q] = [failures |-> 0, opened |-> None]
    BY <1>0, <2>1, AskedCloses
  <2> HIDE DEF next
  <2>5. QED
    BY <1>7, <2>1, <2>2, <2>3, <2>4
<1>10. ASSUME NEW c \in Visit, NEW kind \in Llm!Kinds, Llm!OldClient(c, kind) PROVE CallBounds'
  <2> DEFINE next == [calls[c] EXCEPT !.pc = "asks", !.profile = cached.profile, !.kind = kind]
  <2>1. calls' = [calls EXCEPT ![c] = next] /\ calls[c].pc = "new" /\ cached' = cached /\ breaker' = breaker
    BY <1>10 DEF Llm!OldClient
  <2>2. Tried(next)
    BY <1>2 DEF Tried, Calls
  <2>3. QED
    BY <1>7, <1>8, <2>1, <2>2
<1>11. ASSUME NEW c \in Visit, Llm!Admit(c) PROVE CallBounds'
  <2> DEFINE next == [calls[c] EXCEPT !.pc = "tries", !.attempt = 1]
  <2>1. calls[c].pc = "asks" /\ cached' = cached /\ breaker' = Llm!Asked(breaker, calls[c].profile)
        /\ calls' = [calls EXCEPT ![c].pc = "tries", ![c].attempt = 1]
    BY <1>11 DEF Llm!Admit
  <2>2. calls' = [calls EXCEPT ![c] = next]
    BY <1>0, <2>1 DEF CallTyped, Calls
  <2>3. Tried(next)
    BY <1>2, <1>8 DEF Tried, Calls
  <2>4. calls[c].profile \in Profile
    BY <1>2, <2>1
  <2>5. QED
    BY <1>0, <1>7, <1>8, <2>1, <2>2, <2>3, <2>4, AskedCloses
<1>12. ASSUME NEW c \in Visit, Llm!Refuse(c) PROVE CallBounds'
  <2> DEFINE next == [calls[c] EXCEPT !.pc = "refused"]
  <2>1. calls[c].pc = "asks" /\ cached' = cached /\ breaker' = breaker /\ calls' = [calls EXCEPT ![c].pc = "refused"]
    BY <1>12 DEF Llm!Refuse
  <2>2. calls' = [calls EXCEPT ![c] = next]
    BY <1>0, <2>1 DEF CallTyped, Calls
  <2>3. Tried(next)
    BY <1>2 DEF Tried, Calls
  <2>4. QED
    BY <1>7, <1>8, <2>1, <2>2, <2>3
<1>13. ASSUME NEW c \in Visit, Llm!Chunk(c) PROVE CallBounds'
  <2> DEFINE next == [calls[c] EXCEPT !.chunks = 1, !.from = calls[c].from \cup {calls[c].attempt}]
  <2>1. calls[c].pc = "tries" /\ cached' = cached /\ breaker' = breaker
        /\ calls' = [calls EXCEPT ![c].chunks = 1, ![c].from = calls[c].from \cup {calls[c].attempt}]
    BY <1>13 DEF Llm!Chunk
  <2>2. calls' = [calls EXCEPT ![c] = next]
    BY <1>0, <2>1 DEF CallTyped, Calls
  <2>3. Tried(next)
    BY <1>2, <2>1 DEF Tried, Calls
  <2>4. QED
    BY <1>7, <1>8, <2>1, <2>2, <2>3
<1>14. ASSUME NEW c \in Visit, Llm!TryAgain(c) PROVE CallBounds'
  <2> DEFINE next == [calls[c] EXCEPT !.pc = "tries", !.attempt = calls[c].attempt + 1]
  <2>1. calls[c].pc = "waits" /\ cached' = cached /\ breaker' = breaker
        /\ calls' = [calls EXCEPT ![c].pc = "tries", ![c].attempt = calls[c].attempt + 1]
    BY <1>14 DEF Llm!TryAgain
  <2>2. calls' = [calls EXCEPT ![c] = next]
    BY <1>0, <2>1 DEF CallTyped, Calls
  <2>3. Tried(next)
    BY <1>2, <1>8, <2>1 DEF Tried, Calls
  <2>4. QED
    BY <1>7, <1>8, <2>1, <2>2, <2>3
<1>15. ASSUME NEW c \in Visit, Llm!Abandon(c) PROVE CallBounds'
  <2> DEFINE next == [calls[c] EXCEPT !.pc = "abandoned", !.attempt = 0]
  <2>1. calls[c].pc \in {"tries", "waits"} /\ cached' = cached /\ breaker' = breaker
        /\ calls' = [calls EXCEPT ![c].pc = "abandoned", ![c].attempt = 0]
    BY <1>15 DEF Llm!Abandon
  <2>2. calls' = [calls EXCEPT ![c] = next]
    BY <1>0, <2>1 DEF CallTyped, Calls
  <2>3. Tried(next)
    BY <1>2, <1>8 DEF Tried, Calls
  <2>4. QED
    BY <1>7, <1>8, <2>1, <2>2, <2>3
<1>16. ASSUME NEW c \in Visit, NEW reply \in Llm!Replies, Llm!Answer(c, reply) PROVE CallBounds'
  <2> DEFINE next == [calls[c] EXCEPT !.pc = "answered", !.attempt = 0,
                                      !.from = calls[c].from \cup {calls[c].attempt}]
             p == calls[c].profile
  <2>1. calls[c].pc = "tries" /\ cached' = cached
        /\ breaker' = [breaker EXCEPT ![p] = [failures |-> 0, opened |-> None]]
        /\ calls' = [calls EXCEPT ![c].pc = "answered", ![c].attempt = 0,
                                  ![c].from = calls[c].from \cup {calls[c].attempt}]
    BY <1>16 DEF Llm!Answer, Llm!Succeed
  <2>2. calls' = [calls EXCEPT ![c] = next]
    BY <1>0, <2>1 DEF CallTyped, Calls
  <2>3. Tried(next)
    BY <1>2, <1>8, <2>1 DEF Tried, Calls
  <2>4. \A q \in Profile : breaker'[q] = breaker[q] \/ breaker'[q] = [failures |-> 0, opened |-> None]
    BY <1>0, <2>1 DEF CallTyped
  <2>5. QED
    BY <1>7, <1>8, <2>1, <2>2, <2>3, <2>4
<1>17. ASSUME NEW c \in Visit, NEW reply \in Llm!Replies, Llm!Error(c, reply) PROVE CallBounds'
  <2>1. calls[c].pc = "tries" /\ cached' = cached
    BY <1>17 DEF Llm!Error
  <2>2. CASE Llm!Retries(c, Llm!Outcome(c, reply))
    <3> DEFINE next == [calls[c] EXCEPT !.pc = "waits"]
    <3>1. calls' = [calls EXCEPT ![c].pc = "waits"] /\ breaker' = breaker
      BY <1>17, <2>2 DEF Llm!Error
    <3>2. calls' = [calls EXCEPT ![c] = next]
      BY <1>0, <3>1 DEF CallTyped, Calls
    <3>3. Tried(next)
      BY <1>2, <1>8, <2>2 DEF Tried, Calls, Llm!Retries
    <3>4. QED
      BY <1>7, <1>8, <2>1, <3>1, <3>2, <3>3
  <2>3. CASE ~ Llm!Retries(c, Llm!Outcome(c, reply))
    <3> DEFINE next == [calls[c] EXCEPT !.pc = "failed", !.attempt = 0]
               p == calls[c].profile
               b == [failures |-> breaker[p].failures + 1,
                     opened |-> IF breaker[p].failures + 1 >= Threshold /\ breaker[p].opened = None THEN 0
                                ELSE breaker[p].opened]
    <3>1. calls' = [calls EXCEPT ![c].pc = "failed", ![c].attempt = 0] /\ breaker' = [breaker EXCEPT ![p] = b]
      BY <1>17, <2>3 DEF Llm!Error, Llm!Fail
    <3>2. calls' = [calls EXCEPT ![c] = next]
      BY <1>0, <3>1 DEF CallTyped, Calls
    <3>3. Tried(next) /\ next.pc = "failed"
      BY <1>2, <1>8 DEF Tried, Calls
    <3>4. calls'[c] = next /\ \A d \in Visit \ {c} : calls'[d] = calls[d]
      BY <1>0, <3>2 DEF CallTyped
    <3>5. Cardinality(Lost') = Cardinality(Lost) + 1
      BY <1>0, <2>1, <3>3, <3>4, LostStay
    <3>6. p \in Profile
      BY <1>2, <2>1
    <3>7. breaker[p].failures <= Cardinality(Lost) /\ breaker[p].failures \in Nat /\ Aged(breaker[p])
      BY <1>0, <3>6 DEF CallBounds, CallTyped, Breaker
    <3>8. Aged(b) /\ b.failures <= Cardinality(Lost')
      BY <1>1, <3>5, <3>7 DEF Aged
    <3> HIDE DEF b
    <3>9. ASSUME NEW q \in Profile PROVE Aged(breaker'[q]) /\ breaker'[q].failures <= Cardinality(Lost')
      <4>1. CASE q = p
        BY <1>0, <3>1, <3>8, <4>1 DEF CallTyped
      <4>2. CASE q # p
        <5>1. breaker'[q] = breaker[q]
          BY <1>0, <3>1, <4>2 DEF CallTyped
        <5>2. breaker[q].failures <= Cardinality(Lost) /\ breaker[q].failures \in Nat /\ Aged(breaker[q])
          BY <1>0 DEF CallBounds, CallTyped, Breaker
        <5>3. QED
          BY <1>1, <3>5, <5>1, <5>2
      <4>3. QED
        BY <4>1, <4>2
    <3>10. \A d \in Visit : Tried(calls'[d])
      BY <3>3, <3>4, TriesStay
    <3>11. QED
      BY <1>8, <2>1, <3>9, <3>10 DEF CallBounds
  <2>4. QED
    BY <2>2, <2>3
<1>18. QED
  BY <1>4, <1>5, <1>6, <1>9, <1>10, <1>11, <1>12, <1>13, <1>14, <1>15, <1>16, <1>17 DEF Llm!Next

\* The invariant and the bounds are what Llm!TypeOK says.
LEMMA CallsTyped == CallInv /\ CallBounds => Llm!TypeOK
<1> SUFFICES ASSUME CallInv, CallBounds PROVE Llm!TypeOK
  OBVIOUS
<1> USE CallsAssumed DEF Llm!CallAssumption
<1>0. CallTyped /\ Cardinality(Visit) \in Nat
  BY VisitsAreFinite, FS_CardinalityType DEF CallInv
<1>1. Cardinality(Lost) <= Cardinality(Visit) /\ Cardinality(Lost) \in Nat
  <2>1. Lost \in SUBSET Visit
    BY DEF Lost
  <2>2. QED
    BY <2>1, VisitsAreFinite, FS_Subset, FS_CardinalityType
<1>2. breaker \in [Profile -> [failures : 0..Cardinality(Visit), opened : {None} \cup 0..Cooldown]]
  <2>1. ASSUME NEW p \in Profile PROVE breaker[p] \in [failures : 0..Cardinality(Visit), opened : {None} \cup 0..Cooldown]
    <3>1. breaker[p] \in Breaker /\ Aged(breaker[p]) /\ breaker[p].failures <= Cardinality(Lost)
      BY <1>0 DEF CallTyped, CallBounds
    <3>2. breaker[p].failures \in 0..Cardinality(Visit)
      BY <1>0, <1>1, <3>1 DEF Breaker
    <3>3. QED
      BY <3>1, <3>2 DEF Breaker, Aged
  <2>2. QED
    BY <1>0, <2>1 DEF CallTyped
<1>3. cached \in [profile : Profile \cup {None}, age : 0..ClientTtl]
  BY <1>0 DEF CallTyped, CallBounds
<1>4. calls \in [Visit -> [pc : CallPcs, profile : Profile \cup {None}, kind : Llm!Kinds, attempt : 0..MaxAttempts,
                           chunks : 0..1, from : SUBSET (1..MaxAttempts)]]
  <2>1. ASSUME NEW c \in Visit
        PROVE  calls[c] \in [pc : CallPcs, profile : Profile \cup {None}, kind : Llm!Kinds, attempt : 0..MaxAttempts,
                             chunks : 0..1, from : SUBSET (1..MaxAttempts)]
    <3>1. calls[c] \in Calls /\ Tried(calls[c])
      BY <1>0 DEF CallTyped, CallBounds
    <3>2. \A n \in {0, 1} : n \in 0..1
      OBVIOUS
    <3>3. QED
      BY <3>1, <3>2 DEF Calls, Tried
  <2>2. QED
    BY <1>0, <2>1 DEF CallTyped
<1>5. counted \in [Profile -> [calls : 0..Cardinality(Visit), errors : 0..Cardinality(Visit)]]
  <2>1. ASSUME NEW p \in Profile PROVE counted[p] \in [calls : 0..Cardinality(Visit), errors : 0..Cardinality(Visit)]
    <3>1. counted[p].calls = Cardinality(Ended(p)) /\ counted[p].errors = Cardinality(Missed(p))
      BY Counts DEF CallInv, Llm!CallsCounted, Ended, Missed
    <3>2. Ended(p) \in SUBSET Visit /\ Missed(p) \in SUBSET Visit
      BY DEF Ended, Missed
    <3>3. /\ Cardinality(Ended(p)) <= Cardinality(Visit) /\ Cardinality(Missed(p)) <= Cardinality(Visit)
          /\ Cardinality(Ended(p)) \in Nat /\ Cardinality(Missed(p)) \in Nat
      BY <3>2, VisitsAreFinite, FS_Subset, FS_CardinalityType
    <3>4. counted[p] \in [calls : Nat, errors : Nat]
      BY <1>0 DEF CallTyped
    <3>5. counted[p].calls \in 0..Cardinality(Visit) /\ counted[p].errors \in 0..Cardinality(Visit)
      BY <1>0, <3>1, <3>3
    <3>6. QED
      BY <3>4, <3>5
  <2>2. QED
    BY <1>0, <2>1 DEF CallTyped
<1>6. recorded \in [Profile -> Seq({"success", "failure"})]
  BY <1>0 DEF CallTyped
<1>7. QED
  BY <1>2, <1>3, <1>4, <1>5, <1>6, Counts DEF Llm!TypeOK, CallPcs

----------------------------------------------------------------------------
\* The settings.
\* Removing an element from a sequence leaves a sequence.
LEMMA RemoveTyped ==
    ASSUME NEW S, NEW s \in Seq(S), NEW e PROVE Settings!RemoveFirst(s, e) \in Seq(S)
<1> DEFINE I == {i \in 1..Len(s) : s[i] = e}
           at == Settings!SelectInSeq(s, LAMBDA v : v = e)
<1>1. CASE I = {}
  <2>1. Settings!RemoveFirst(s, e) = s
    BY <1>1 DEF Settings!RemoveFirst
  <2>2. QED
    BY <2>1
<1>2. CASE I # {}
  <2>1. at \in 1..Len(s)
    <3>1. I \in SUBSET Nat
      OBVIOUS
    <3>2. \E m \in I : \A y \in I : m <= y
      BY <1>2, <3>1, Least
    <3>3. at = Settings!Min(I)
      BY <1>2 DEF Settings!SelectInSeq
    <3>4. Settings!Min(I) \in I
      BY <3>2 DEF Settings!Min
    <3>5. QED
      BY <3>3, <3>4
  <2>2. Settings!RemoveFirst(s, e) = Settings!RemoveAt(s, at)
    BY <1>2 DEF Settings!RemoveFirst
  <2> HIDE DEF at
  <2>3. SubSeq(s, 1, at - 1) \in Seq(S) /\ SubSeq(s, at + 1, Len(s)) \in Seq(S)
    BY <2>1
  <2>4. QED
    BY <2>2, <2>3 DEF Settings!RemoveAt
<1>3. QED
  BY <1>1, <1>2

KeyOrNone == ApiKey \cup {Nobody}
ProfileOrNone == Profile \cup {None}
Docs == [profiles : Seq(Profile), default : ProfileOrNone, route : ProfileOrNone, keys : [Profile -> KeyOrNone]]
SavePcs == {"new", "reading", "filling", "decides", "saving", "keys", "written", "done"}
SaveOps == {"none", "create", "update", "delete", "route", "call", "page"}
Saves == [pc : SavePcs, op : SaveOps, profile : ProfileOrNone, key : KeyOrNone, view : Docs, doc : Docs]
\* Documents and requests are of the right kind; one that changes a profile
\* names it.
SettingsInv ==
    /\ file \in Docs /\ secrets \in [Profile -> KeyOrNone] /\ effective \in Docs \cup {None}
    /\ client = None \/ client \in [profile : Profile, key : KeyOrNone]
    /\ save \in [Query -> Saves]
    /\ \A r \in Query : save[r].op \in {"create", "update", "delete", "route"} => save[r].profile \in Profile
    /\ crashes \in 0..MaxCrashes

\* The constants of the settings are as it needs them.
LEMMA SettingsAssumed == Settings!SettingsAssumption
  BY ProfilesAssumption

\* The documents a request makes are documents.
LEMMA Documents ==
    /\ Settings!NoKeys \in [Profile -> KeyOrNone] /\ Settings!DefaultDoc \in Docs /\ Settings!Idle \in Saves
    /\ \A d \in Docs : Settings!Normalized(d) \in Docs
    /\ \A d \in Docs, k \in [Profile -> KeyOrNone] : [d EXCEPT !.keys = k] \in Docs
<1> USE SettingsAssumed DEF Settings!SettingsAssumption
<1>1. Settings!NoKeys \in [Profile -> KeyOrNone]
  BY DEF Settings!NoKeys, KeyOrNone
<1>2. Builtin \in Seq(Profile) /\ Builtin[1] \in Profile
  OBVIOUS
<1>3. Settings!DefaultDoc \in Docs
  BY <1>1, <1>2 DEF Settings!DefaultDoc, Settings!SettingsDoc, Docs, ProfileOrNone
<1>4. Settings!Idle \in Saves
  BY <1>3 DEF Settings!Idle, Saves, SavePcs, SaveOps, ProfileOrNone, KeyOrNone
<1>5. ASSUME NEW d \in Docs PROVE Settings!Normalized(d) \in Docs
  <2> DEFINE profiles == IF d.profiles = <<>> THEN Builtin ELSE d.profiles
             default == IF d.default = None THEN profiles[1] ELSE d.default
             route == IF d.route \in Settings!Range(profiles) THEN d.route ELSE None
             keys == [p \in Profile |-> IF p \in Settings!Range(profiles) THEN d.keys[p] ELSE Nobody]
  <2>1. profiles \in Seq(Profile) /\ profiles # <<>>
    BY <1>2 DEF Docs
  <2>2. profiles[1] \in Profile
    <3> HIDE DEF profiles
    <3>1. QED
      BY <2>1
  <2> HIDE DEF profiles
  <2>3. default \in ProfileOrNone /\ route \in ProfileOrNone
    BY <2>2 DEF Docs, ProfileOrNone
  <2>4. keys \in [Profile -> KeyOrNone]
    BY DEF Docs, KeyOrNone
  <2>5. Settings!Normalized(d) = [profiles |-> profiles, default |-> default, route |-> route, keys |-> keys]
    BY DEF Settings!Normalized, Settings!SettingsDoc, profiles
  <2> HIDE DEF default, route, keys
  <2>6. QED
    BY <2>1, <2>3, <2>4, <2>5 DEF Docs
<1>6. \A d \in Docs, k \in [Profile -> KeyOrNone] : [d EXCEPT !.keys = k] \in Docs
  BY DEF Docs
<1>7. QED
  BY <1>1, <1>3, <1>4, <1>5, <1>6

\* What is in the files, taken together, is a document.
LEMMA EffectiveIs == ASSUME SettingsInv PROVE Settings!Effective \in Docs
  BY Documents DEF SettingsInv, Settings!Effective

\* The invariant of the settings is what Settings!TypeOK asks, and more.
LEMMA SettingsTyped == SettingsInv => Settings!TypeOK
<1> SUFFICES ASSUME SettingsInv PROVE Settings!TypeOK
  OBVIOUS
<1>1. \A d \in Docs : Settings!DocOK(d)
  BY DEF Docs, Settings!DocOK, ProfileOrNone, KeyOrNone
<1>2. \A r \in Query : /\ save[r].pc \in SavePcs
                       /\ Settings!DocOK(save[r].view) /\ Settings!DocOK(save[r].doc)
  <2>1. \A r \in Query : save[r] \in Saves
    BY DEF SettingsInv
  <2>2. QED
    BY <1>1, <2>1 DEF Saves
<1>3. QED
  BY <1>1, <1>2 DEF SettingsInv, Settings!TypeOK, SavePcs, KeyOrNone

\* The invariant holds initially.
LEMMA SettingsInitially == Settings!Init => SettingsInv
<1> SUFFICES ASSUME Settings!Init PROVE SettingsInv
  OBVIOUS
<1>1. Settings!Idle.op = "none"
  BY DEF Settings!Idle
<1>2. crashes \in 0..MaxCrashes
  BY SettingsAssumed DEF Settings!Init, Settings!SettingsAssumption
<1>3. QED
  BY <1>1, <1>2, Documents DEF Settings!Init, SettingsInv

\* A request that moves to a record of the right kind leaves the others.
LEMMA RequestMoves ==
    ASSUME SettingsInv, NEW r \in Query, NEW next \in Saves, save' = [save EXCEPT ![r] = next],
           next.op \in {"create", "update", "delete", "route"} => next.profile \in Profile
    PROVE  /\ save' \in [Query -> Saves]
           /\ \A q \in Query : save'[q].op \in {"create", "update", "delete", "route"} => save'[q].profile \in Profile
<1>1. save \in [Query -> Saves]
  BY DEF SettingsInv
<1>2. \A q \in Query : save'[q] = IF q = r THEN next ELSE save[q]
  BY <1>1
<1>3. QED
  BY <1>1, <1>2 DEF SettingsInv

\* A request that gets to its next point with what it has.
LEMMA PointMoves ==
    ASSUME SettingsInv, NEW r \in Query, NEW pc \in SavePcs, NEW view \in Docs, NEW doc \in Docs,
           save' = [save EXCEPT ![r] = [save[r] EXCEPT !.pc = pc, !.view = view, !.doc = doc]]
    PROVE  /\ save' \in [Query -> Saves]
           /\ \A q \in Query : save'[q].op \in {"create", "update", "delete", "route"} => save'[q].profile \in Profile
<1>1. save[r] \in Saves
  BY DEF SettingsInv
<1> DEFINE next == [save[r] EXCEPT !.pc = pc, !.view = view, !.doc = doc]
<1>2. next \in Saves /\ next.op = save[r].op /\ next.profile = save[r].profile
  BY <1>1 DEF Saves
<1>3. save[r].op \in {"create", "update", "delete", "route"} => save[r].profile \in Profile
  BY DEF SettingsInv
<1> HIDE DEF next
<1>4. save' = [save EXCEPT ![r] = next]
  BY DEF next
<1>5. QED
  BY <1>2, <1>3, <1>4, RequestMoves

\* Every step keeps the invariant of the settings.
LEMMA SettingsStay == SettingsInv /\ [Settings!Next]_settingsVars => SettingsInv'
<1> SUFFICES ASSUME SettingsInv, [Settings!Next]_settingsVars PROVE SettingsInv'
  OBVIOUS
<1> USE SettingsAssumed DEF Settings!SettingsAssumption
<1>1. /\ file \in Docs /\ secrets \in [Profile -> KeyOrNone] /\ effective \in Docs \cup {None}
      /\ client = None \/ client \in [profile : Profile, key : KeyOrNone]
      /\ save \in [Query -> Saves] /\ crashes \in 0..MaxCrashes
  BY DEF SettingsInv
<1>2. ASSUME NEW r \in Query
      PROVE  /\ save[r] \in Saves /\ save[r].view \in Docs /\ save[r].doc \in Docs
             /\ save[r].profile \in ProfileOrNone /\ save[r].key \in KeyOrNone
             /\ save[r].op \in {"create", "update", "delete", "route"} => save[r].profile \in Profile
  <2>1. save[r] \in Saves
    BY <1>1
  <2>2. QED
    BY <2>1 DEF Saves, SettingsInv
<1> DEFINE Moved == /\ save' \in [Query -> Saves]
                    /\ \A q \in Query : save'[q].op \in {"create", "update", "delete", "route"}
                                          => save'[q].profile \in Profile
<1>3. ASSUME Moved, UNCHANGED <<file, secrets, effective, client, crashes>> PROVE SettingsInv'
  BY <1>1, <1>3 DEF SettingsInv
<1>4. CASE UNCHANGED settingsVars
  BY <1>4 DEF settingsVars, SettingsInv
<1>5. ASSUME NEW r \in Query, NEW op \in {"create", "update", "delete", "route", "call"}, NEW p \in ProfileOrNone,
             NEW k \in KeyOrNone, op # "call" => p \in Profile, Settings!Ask(r, op, p, k)
      PROVE  SettingsInv'
  <2> DEFINE next == IF effective = None
           THEN [save[r] EXCEPT !.pc = "reading", !.op = op, !.profile = p, !.key = k]
           ELSE [save[r] EXCEPT !.pc = "decides", !.op = op, !.profile = p, !.key = k, !.view = effective]
  <2>1. save' = [save EXCEPT ![r] = next] /\ UNCHANGED <<file, secrets, effective, client, crashes>>
    BY <1>5 DEF Settings!Ask
  <2>2. next \in Saves /\ next.op = op /\ next.profile = p
    BY <1>1, <1>2, <1>5 DEF Saves, SavePcs, SaveOps
  <2> HIDE DEF next
  <2>3. Moved
    BY <1>5, <2>1, <2>2, RequestMoves
  <2>4. QED
    BY <1>3, <2>1, <2>3
<1>6. ASSUME NEW r \in Query, Settings!AskPage(r) PROVE SettingsInv'
  <2> DEFINE next == [save[r] EXCEPT !.pc = "decides", !.op = "page",
                                     !.view = [Settings!Effective EXCEPT !.keys = Settings!NoKeys]]
  <2>1. save' = [save EXCEPT ![r] = next] /\ UNCHANGED <<file, secrets, effective, client, crashes>>
    BY <1>6 DEF Settings!AskPage
  <2>2. [Settings!Effective EXCEPT !.keys = Settings!NoKeys] \in Docs
    BY Documents, EffectiveIs
  <2>3. next \in Saves /\ next.op = "page"
    BY <1>2, <2>2 DEF Saves, SavePcs, SaveOps
  <2> HIDE DEF next
  <2>4. Moved
    BY <2>1, <2>3, RequestMoves
  <2>5. QED
    BY <1>3, <2>1, <2>4
<1>7. ASSUME NEW r \in Query, Settings!Read(r) PROVE SettingsInv'
  <2>1. save' = [save EXCEPT ![r].pc = "filling", ![r].view = Settings!Effective]
        /\ UNCHANGED <<file, secrets, effective, client, crashes>>
    BY <1>7 DEF Settings!Read
  <2>2. save' = [save EXCEPT ![r] = [save[r] EXCEPT !.pc = "filling", !.view = Settings!Effective, !.doc = save[r].doc]]
    BY <1>1, <2>1 DEF Saves
  <2>3. Moved
    BY <1>2, <2>2, PointMoves, EffectiveIs DEF SavePcs
  <2>4. QED
    BY <1>3, <2>1, <2>3
<1>8. ASSUME NEW r \in Query, NEW pc \in SavePcs, NEW doc \in Docs,
             save' = [save EXCEPT ![r].pc = pc, ![r].doc = doc]
      PROVE  Moved
  <2>1. save' = [save EXCEPT ![r] = [save[r] EXCEPT !.pc = pc, !.view = save[r].view, !.doc = doc]]
    BY <1>1, <1>8 DEF Saves
  <2>2. QED
    BY <1>2, <2>1, PointMoves
<1>9. ASSUME NEW r \in Query, NEW pc \in SavePcs, save' = [save EXCEPT ![r].pc = pc] PROVE Moved
  <2>1. save' = [save EXCEPT ![r] = [save[r] EXCEPT !.pc = pc, !.view = save[r].view, !.doc = save[r].doc]]
    BY <1>1, <1>9 DEF Saves
  <2>2. QED
    BY <1>2, <2>1, PointMoves
<1>10. ASSUME NEW r \in Query, save' = [save EXCEPT ![r] = [Settings!Idle EXCEPT !.pc = "done"]] PROVE Moved
  <2> DEFINE next == [Settings!Idle EXCEPT !.pc = "done"]
  <2>1. next \in Saves /\ next.op = "none"
    BY Documents DEF Saves, SavePcs, Settings!Idle
  <2> HIDE DEF next
  <2>2. QED
    BY <1>10, <2>1, RequestMoves DEF next
<1>11. ASSUME NEW r \in Query, Settings!Fill(r) PROVE SettingsInv'
  <2>1. save' = [save EXCEPT ![r].pc = "decides"] /\ effective' = save[r].view
        /\ UNCHANGED <<file, secrets, client, crashes>>
    BY <1>11 DEF Settings!Fill
  <2>2. Moved
    BY <1>9, <2>1 DEF SavePcs
  <2>3. QED
    BY <1>1, <1>2, <2>1, <2>2 DEF SettingsInv
<1>12. ASSUME NEW r \in Query, NEW doc \in Docs, Settings!Save(r, doc),
              UNCHANGED <<file, secrets, effective, client, crashes>>
       PROVE  SettingsInv'
  <2>1. Moved
    BY <1>8, <1>12 DEF Settings!Save, SavePcs
  <2>2. QED
    BY <1>3, <1>12, <2>1
<1>13. ASSUME NEW d \in Docs
       PROVE  /\ d.profiles \in Seq(Profile) /\ d.default \in ProfileOrNone /\ d.route \in ProfileOrNone
              /\ d.keys \in [Profile -> KeyOrNone]
              /\ \A p \in Settings!Range(d.profiles) : p \in Profile
  BY DEF Docs, Settings!Range
<1>14. \A ps \in Seq(Profile), d \in ProfileOrNone, t \in ProfileOrNone, ks \in [Profile -> KeyOrNone] :
          Settings!SettingsDoc(ps, d, t, ks) \in Docs
  BY DEF Settings!SettingsDoc, Docs
<1>15. \A p : \A ks \in [Profile -> KeyOrNone], k \in KeyOrNone : [ks EXCEPT ![p] = k] \in [Profile -> KeyOrNone]
  OBVIOUS
<1>16. ASSUME NEW r \in Query, Settings!CreateProfile(r) PROVE SettingsInv'
  <2> DEFINE v == save[r].view
             p == save[r].profile
             keys == [v.keys EXCEPT ![p] = save[r].key]
             doc == Settings!SettingsDoc(Append(v.profiles, p), v.default, v.route, keys)
  <2>1. p \in Profile /\ Settings!Save(r, doc) /\ UNCHANGED <<file, secrets, effective, client, crashes>>
    BY <1>2, <1>16 DEF Settings!CreateProfile, Settings!Decides
  <2>2. v \in Docs /\ keys \in [Profile -> KeyOrNone]
    BY <1>2, <1>13, <1>15
  <2> HIDE DEF v, keys, p
  <2>3. Append(v.profiles, p) \in Seq(Profile)
    BY <1>13, <2>1, <2>2
  <2>4. doc \in Docs
    BY <1>13, <1>14, <2>2, <2>3
  <2>5. QED
    BY <1>12, <2>1, <2>4
<1>17. ASSUME NEW r \in Query, Settings!UpdateProfile(r) PROVE SettingsInv'
  <2> DEFINE v == save[r].view
             keys == [v.keys EXCEPT ![save[r].profile] = save[r].key]
  <2>1. Settings!Save(r, [v EXCEPT !.keys[save[r].profile] = save[r].key])
        /\ UNCHANGED <<file, secrets, effective, client, crashes>>
    BY <1>17 DEF Settings!UpdateProfile
  <2>2. v \in Docs /\ keys \in [Profile -> KeyOrNone]
    BY <1>2, <1>13, <1>15
  <2>3. [v EXCEPT !.keys[save[r].profile] = save[r].key] = [v EXCEPT !.keys = keys]
    OBVIOUS
  <2> HIDE DEF v, keys
  <2>4. [v EXCEPT !.keys = keys] \in Docs
    BY <2>2, Documents
  <2>5. QED
    BY <1>12, <2>1, <2>3, <2>4
<1>18. ASSUME NEW r \in Query, Settings!DeleteProfile(r) PROVE SettingsInv'
  <2> DEFINE v == save[r].view
             left == Settings!RemoveFirst(v.profiles, save[r].profile)
             default == IF v.default # save[r].profile THEN v.default ELSE IF left = <<>> THEN None ELSE left[1]
             route == IF v.route = save[r].profile THEN None ELSE v.route
             keys == [v.keys EXCEPT ![save[r].profile] = Nobody]
  <2>1. Settings!Save(r, Settings!SettingsDoc(left, default, route, keys))
        /\ UNCHANGED <<file, secrets, effective, client, crashes>>
    BY <1>18 DEF Settings!DeleteProfile
  <2>2. v \in Docs /\ v.keys \in [Profile -> KeyOrNone] /\ v.profiles \in Seq(Profile)
        /\ v.default \in ProfileOrNone /\ v.route \in ProfileOrNone
    BY <1>2, <1>13
  <2>3. keys \in [Profile -> KeyOrNone]
    BY <2>2 DEF KeyOrNone
  <2> HIDE DEF v, keys
  <2>4. left \in Seq(Profile)
    BY <2>2, RemoveTyped
  <2> HIDE DEF left
  <2>5. left # <<>> => left[1] \in Profile
    BY <2>4
  <2>6. default \in ProfileOrNone /\ route \in ProfileOrNone
    BY <2>2, <2>5 DEF ProfileOrNone
  <2> HIDE DEF default, route
  <2>7. Settings!SettingsDoc(left, default, route, keys) \in Docs
    BY <1>14, <2>3, <2>4, <2>6
  <2>8. QED
    BY <1>12, <2>1, <2>7
<1>19. ASSUME NEW r \in Query, Settings!SaveRouting(r) PROVE SettingsInv'
  <2>1. Settings!Save(r, [save[r].view EXCEPT !.route = save[r].profile])
        /\ UNCHANGED <<file, secrets, effective, client, crashes>>
    BY <1>19 DEF Settings!SaveRouting
  <2>2. [save[r].view EXCEPT !.route = save[r].profile] \in Docs
    BY <1>2 DEF Docs
  <2>3. QED
    BY <1>12, <2>1, <2>2
<1>20. ASSUME NEW r \in Query, Settings!SavePage(r) PROVE SettingsInv'
  <2>1. PICK p \in Settings!Range(save[r].view.profiles) : Settings!Save(r, [save[r].view EXCEPT !.default = p])
    BY <1>20 DEF Settings!SavePage
  <2>2. p \in ProfileOrNone
    BY <1>2, <1>13 DEF ProfileOrNone
  <2>3. [save[r].view EXCEPT !.default = p] \in Docs
    BY <1>2, <2>2 DEF Docs
  <2>4. QED
    BY <1>12, <1>20, <2>1, <2>3 DEF Settings!SavePage
<1>21. ASSUME NEW r \in Query, Settings!Reject(r) PROVE SettingsInv'
  <2>1. save' = [save EXCEPT ![r] = [Settings!Idle EXCEPT !.pc = "done"]]
        /\ UNCHANGED <<file, secrets, effective, client, crashes>>
    BY <1>21 DEF Settings!Reject
  <2>2. QED
    BY <1>3, <1>10, <2>1
<1>22. ASSUME NEW r \in Query, Settings!WriteFile(r) PROVE SettingsInv'
  <2>1. save' = [save EXCEPT ![r].pc = "keys"] /\ file' = [save[r].doc EXCEPT !.keys = Settings!NoKeys]
        /\ UNCHANGED <<secrets, effective, client, crashes>>
    BY <1>22 DEF Settings!WriteFile
  <2>2. Moved
    BY <1>9, <2>1 DEF SavePcs
  <2>3. file' \in Docs
    BY <1>2, <2>1, Documents
  <2>4. QED
    BY <1>1, <2>1, <2>2, <2>3 DEF SettingsInv
<1>23. ASSUME NEW r \in Query, Settings!WriteSecrets(r) PROVE SettingsInv'
  <2>1. save' = [save EXCEPT ![r].pc = "written"] /\ secrets' = save[r].doc.keys
        /\ UNCHANGED <<file, effective, client, crashes>>
    BY <1>23 DEF Settings!WriteSecrets
  <2>2. Moved
    BY <1>9, <2>1 DEF SavePcs
  <2>3. secrets' \in [Profile -> KeyOrNone]
    BY <1>2, <1>13, <2>1
  <2>4. QED
    BY <1>1, <2>1, <2>2, <2>3 DEF SettingsInv
<1>24. ASSUME NEW r \in Query, Settings!Invalidate(r) PROVE SettingsInv'
  <2>1. save' = [save EXCEPT ![r] = [Settings!Idle EXCEPT !.pc = "done"]]
        /\ effective' = None /\ client' = None /\ UNCHANGED <<file, secrets, crashes>>
    BY <1>24 DEF Settings!Invalidate
  <2>2. Moved
    BY <1>10, <2>1
  <2>3. QED
    BY <1>1, <2>1, <2>2 DEF SettingsInv
<1>25. ASSUME NEW r \in Query, Settings!MakeClient(r) PROVE SettingsInv'
  <2>1. save' = [save EXCEPT ![r] = [Settings!Idle EXCEPT !.pc = "done"]] /\ UNCHANGED <<file, secrets, effective, crashes>>
    BY <1>25 DEF Settings!MakeClient
  <2>2. PICK p \in Settings!Routed(save[r].view) : client' = [profile |-> p, key |-> save[r].view.keys[p]]
    BY <1>25 DEF Settings!MakeClient
  <2>3. p \in Profile
    <3>1. p \in Settings!Range(save[r].view.profiles)
      BY DEF Settings!Routed
    <3>2. QED
      BY <1>2, <1>13, <3>1
  <2>4. save[r].view.keys[p] \in KeyOrNone
    BY <1>2, <1>13, <2>3
  <2>5. Moved
    BY <1>10, <2>1
  <2>6. QED
    BY <1>1, <2>1, <2>2, <2>3, <2>4, <2>5 DEF SettingsInv
<1>26. CASE Settings!ExpireSettings \/ Settings!ExpireClient
  <2>1. Moved
    BY <1>1, <1>26 DEF Settings!ExpireSettings, Settings!ExpireClient, SettingsInv
  <2>2. QED
    BY <1>1, <1>26, <2>1 DEF Settings!ExpireSettings, Settings!ExpireClient, SettingsInv
<1>27. CASE Settings!Crash
  <2> DEFINE end == [Settings!Idle EXCEPT !.pc = "done"]
  <2>1. end \in Saves /\ end.op = "none"
    BY Documents DEF Saves, SavePcs, Settings!Idle
  <2>2. save' = [r \in Query |-> IF save[r].pc = "new" THEN save[r] ELSE end]
        /\ effective' = None /\ client' = None /\ crashes' \in 0..MaxCrashes /\ UNCHANGED <<file, secrets>>
    BY <1>1, <1>27 DEF Settings!Crash
  <2> HIDE DEF end
  <2>3. Moved
    BY <1>1, <1>2, <2>1, <2>2
  <2>4. QED
    BY <1>1, <2>2, <2>3 DEF SettingsInv
<1>28. ASSUME NEW r \in Query, NEW op \in {"create", "update"}, NEW p \in Profile, NEW k \in ApiKey \cup {Nobody},
              Settings!Ask(r, op, p, k)
       PROVE  SettingsInv'
  BY <1>5, <1>28 DEF ProfileOrNone, KeyOrNone
<1>29. ASSUME NEW r \in Query, NEW op \in {"delete", "route"}, NEW p \in Profile, Settings!Ask(r, op, p, Nobody)
       PROVE  SettingsInv'
  BY <1>5, <1>29 DEF ProfileOrNone, KeyOrNone
<1>30. ASSUME NEW r \in Query, Settings!Ask(r, "call", None, Nobody) PROVE SettingsInv'
  BY <1>5, <1>30 DEF ProfileOrNone, KeyOrNone
<1> HIDE DEF Moved
<1>31. QED
  BY <1>4, <1>6, <1>7, <1>11, <1>16, <1>17, <1>18, <1>19, <1>20, <1>21, <1>22, <1>23, <1>24, <1>25, <1>26, <1>27,
     <1>28, <1>29, <1>30 DEF Settings!Next, Settings!Continue

----------------------------------------------------------------------------
\* Retrieval.
LEMMA RetrievalAssumed == Retrieval!RetrievalAssumption
  BY ServicesAssumption

\* A chunk that may be given to the owner: one that is there and that no
\* transaction has announced to go, or one that is excused.
Sound(set) ==
    \A c \in set : c \in raced \/ (c \in Retrieval!Live /\ writer[c[1]] \notin {"unindexed", "deleted"})
Students(r) == question[r].key = <<"student", TRUE>>
Refused ==
    \A r \in Query :
        /\ ~question[r].granted => ~grant
        /\ Students(r) /\ ~question[r].granted =>
             question[r].pc \in {"policy", "forbidden"} /\ question[r].chunks = {} /\ question[r].cites = {}
        /\ question[r].pc \in {"new", "policy"} => question[r].chunks = {} /\ question[r].cites = {}
        /\ question[r].pc = "new" => question[r].key = <<"teacher", FALSE>>
Fresh ==
    /\ \A k \in Retrieval!Key : k[1] = "teacher" /\ found[k] # Retrieval!Nothing => Sound(found[k])
    /\ \A r \in Query :
         /\ question[r].gone \subseteq Retrieval!Past
         /\ question[r].pc \in {"new", "policy", "lookup", "search"} => question[r].chunks = {}
         /\ question[r].key[1] = "teacher" =>
              /\ question[r].pc = "store" => Sound(question[r].chunks)
              /\ question[r].chunks \cap question[r].gone \subseteq raced

\* Only documents that have a chunk are written to, and one that has the last
\* generation is not indexed again.
Writers ==
    \A d \in Doc :
        /\ writer[d] # "none" => chunk[d] > 0
        /\ writer[d] \in {"indexing", "unindexed"} => chunk[d] < MaxGeneration
Question ==
    [pc : {"new", "policy", "lookup", "search", "store", "recheck", "model", "keep",
           "done", "failed", "forbidden"},
     key : Retrieval!Key, chunks : SUBSET Retrieval!Chunk, matched : SUBSET Retrieval!Chunk,
     cites : SUBSET Retrieval!Chunk, gone : SUBSET Retrieval!Chunk, granted : BOOLEAN]
RetrievalTyped ==
    /\ chunk \in [Doc -> 0..MaxGeneration]
    /\ writer \in [Doc -> {"none", "indexing", "deleting", "unindexed", "deleted"}]
    /\ grant \in BOOLEAN /\ found \in [Retrieval!Key -> Retrieval!Cached] /\ answers \in [Retrieval!Key -> Retrieval!Cached]
    /\ question \in [Query -> Question]
    /\ raced \subseteq Retrieval!Chunk
    /\ Writers
RetInv == RetrievalTyped /\ Refused /\ Fresh

\* The chunks there are, and those that are gone, are chunks.
LEMMA Chunks ==
    ASSUME RetrievalTyped
    PROVE  /\ Retrieval!Live \subseteq Retrieval!Chunk /\ Retrieval!Past \subseteq Retrieval!Chunk /\ Retrieval!Nothing \notin SUBSET Retrieval!Chunk
           /\ \A d \in Doc : writer[d] # "none" => <<d, chunk[d]>> \in Retrieval!Chunk
           /\ \A d \in Doc : writer[d] # "none" => <<d, chunk[d]>> \in Retrieval!Live
<1>1. Retrieval!Live \subseteq Retrieval!Chunk
  BY RetrievalAssumed DEF Retrieval!RetrievalAssumption, RetrievalTyped, Retrieval!Live, Retrieval!Chunk
<1>2. <<"absent">> \notin Retrieval!Chunk
  BY DEF Retrieval!Chunk
<1>3. \A d \in Doc : writer[d] # "none" => <<d, chunk[d]>> \in Retrieval!Live
  BY DEF RetrievalTyped, Writers, Retrieval!Live
<1>4. QED
  BY <1>1, <1>2, <1>3 DEF Retrieval!Past, Retrieval!Nothing

\* A search gives nothing but what it could see.
LEMMA HitsSeen ==
    ASSUME NEW all, NEW vector \in Retrieval!Rankings(all), NEW lexical \in Retrieval!Rankings(all), NEW hits \in Retrieval!Hits(vector, lexical)
    PROVE  hits \subseteq all /\ Retrieval!Listed(vector) \subseteq all
<1>1. Retrieval!Listed(vector) \subseteq all /\ Retrieval!Listed(lexical) \subseteq all
  BY DEF Retrieval!Rankings, Retrieval!Listed
<1>2. \A s \in Retrieval!Reranked(Retrieval!Listed(vector) \cup Retrieval!Listed(lexical)) : s \subseteq all
  BY <1>1 DEF Retrieval!Reranked
<1>3. \E s \in Retrieval!Reranked(Retrieval!Listed(vector) \cup Retrieval!Listed(lexical)) : hits = Retrieval!FilterByScore(s, vector, lexical)
  BY DEF Retrieval!Hits
<1>4. QED
  BY <1>1, <1>2, <1>3 DEF Retrieval!FilterByScore

\* What a step of a request does.
LEMMA SearchGives ==
    ASSUME RetrievalTyped, NEW r \in Query, Retrieval!Search(r)
    PROVE  \E hits \in SUBSET Retrieval!Live : \E matched \in SUBSET Retrieval!Chunk :
              question' = [question EXCEPT ![r].pc = "store", ![r].chunks = hits, ![r].matched = matched]
<1>1. PICK vector \in Retrieval!Rankings(Retrieval!Searchable(question[r].key)) : \E lexical \in Retrieval!Rankings(Retrieval!Searchable(question[r].key)) :
        \E hits \in Retrieval!Hits(vector, lexical) :
           question' = [question EXCEPT ![r].pc = "store", ![r].chunks = hits,
                              ![r].matched = Retrieval!Listed(vector) \cap Retrieval!Listed(lexical)]
  BY DEF Retrieval!Search
<1>2. PICK lexical \in Retrieval!Rankings(Retrieval!Searchable(question[r].key)) : \E hits \in Retrieval!Hits(vector, lexical) :
           question' = [question EXCEPT ![r].pc = "store", ![r].chunks = hits,
                              ![r].matched = Retrieval!Listed(vector) \cap Retrieval!Listed(lexical)]
  BY <1>1
<1>3. PICK hits \in Retrieval!Hits(vector, lexical) :
           question' = [question EXCEPT ![r].pc = "store", ![r].chunks = hits,
                              ![r].matched = Retrieval!Listed(vector) \cap Retrieval!Listed(lexical)]
  BY <1>2
<1>4. Retrieval!Searchable(question[r].key) \subseteq Retrieval!Live
  BY DEF Retrieval!Searchable
<1>5. hits \subseteq Retrieval!Live /\ Retrieval!Listed(vector) \subseteq Retrieval!Live
  BY <1>4, HitsSeen
<1>6. Retrieval!Listed(vector) \cap Retrieval!Listed(lexical) \in SUBSET Retrieval!Chunk
  BY <1>5, Chunks
<1>7. QED
  BY <1>3, <1>5, <1>6

\* A request changes nothing of the others.
Only(r) == \A q \in Query \ {r} : question'[q] = question[q]

\* What each step of a question does to its record: it begins,
LEMMA BeginRecord ==
    ASSUME RetrievalTyped, NEW r \in Query, NEW whose \in Asker, Retrieval!Begin(r, whose)
    PROVE  /\ question' \in [Query -> Question] /\ Only(r) /\ question[r].pc = "new"
           /\ question'[r] = [question[r] EXCEPT !.pc = "policy", !.key = whose, !.gone = Retrieval!Past, !.granted = grant]
<1>1. question'[r] = [question[r] EXCEPT !.pc = "policy", !.key = whose, !.gone = Retrieval!Past, !.granted = grant]
  BY DEF Retrieval!Begin, RetrievalTyped
<1>2. question'[r] \in Question
  BY <1>1, Chunks, RetrievalAssumed DEF Retrieval!RetrievalAssumption, RetrievalTyped, Question
<1>3. QED
  BY <1>1, <1>2 DEF Retrieval!Begin, RetrievalTyped, Only
\* checks the grant,
LEMMA CheckRecord ==
    ASSUME RetrievalTyped, NEW r \in Query, Retrieval!Check(r)
    PROVE  /\ question' \in [Query -> Question] /\ Only(r) /\ question[r].pc = "policy"
           /\ question'[r] = [question[r] EXCEPT !.pc = IF Retrieval!Forbidden(question[r].key) THEN "forbidden" ELSE "lookup"]
  BY DEF Retrieval!Check, RetrievalTyped, Question, Only
\* (a question that is given chunks is a question)
LEMMA GivenChunks ==
    ASSUME NEW q \in Question, NEW set \in SUBSET Retrieval!Chunk
    PROVE  /\ [q EXCEPT !.pc = "recheck", !.chunks = set] \in Question
           /\ [q EXCEPT !.pc = "done", !.cites = set] \in Question
  BY DEF Question
\* looks into the cache of the retrieval,
LEMMA LookupRecord ==
    ASSUME RetrievalTyped, NEW r \in Query, Retrieval!Lookup(r)
    PROVE  /\ question' \in [Query -> Question] /\ Only(r) /\ question[r].pc = "lookup"
           /\ \/ question'[r] = [question[r] EXCEPT !.pc = "search"]
              \/ /\ found[question[r].key] # Retrieval!Nothing
                 /\ question'[r] = [question[r] EXCEPT !.pc = "recheck", !.chunks = found[question[r].key]]
<1>1. found[question[r].key] \in (SUBSET Retrieval!Chunk) \cup {Retrieval!Nothing}
  BY DEF RetrievalTyped, Retrieval!Cached, Question
<1>2. question[r].pc = "lookup" /\ question[r] \in Question
  BY DEF Retrieval!Lookup, RetrievalTyped
<1>3. CASE question' = [question EXCEPT ![r].pc = "search"]
  BY <1>2, <1>3 DEF RetrievalTyped, Question, Only
<1>4. ASSUME found[question[r].key] # Retrieval!Nothing,
             question' = [question EXCEPT ![r] = [@ EXCEPT !.pc = "recheck", !.chunks = found[question[r].key]]]
      PROVE  question' \in [Query -> Question] /\ Only(r)
             /\ question'[r] = [question[r] EXCEPT !.pc = "recheck", !.chunks = found[question[r].key]]
  <2>1. [question[r] EXCEPT !.pc = "recheck", !.chunks = found[question[r].key]] \in Question
    BY <1>1, <1>2, <1>4, GivenChunks
  <2> QED BY <1>4, <2>1 DEF RetrievalTyped, Only
<1>5. QED
  BY <1>2, <1>3, <1>4 DEF Retrieval!Lookup, RetrievalTyped
\* searches,
LEMMA SearchSets ==
    ASSUME RetrievalTyped, NEW r \in Query, Retrieval!Search(r)
    PROVE  /\ question' \in [Query -> Question] /\ Only(r) /\ question[r].pc = "search"
           /\ question'[r].key = question[r].key /\ question'[r].granted = question[r].granted /\ question'[r].gone = question[r].gone
           /\ question'[r].cites = question[r].cites /\ question'[r].pc = "store" /\ question'[r].chunks \subseteq Retrieval!Live
<1>1. PICK hits \in SUBSET Retrieval!Live : \E matched \in SUBSET Retrieval!Chunk :
              question' = [question EXCEPT ![r].pc = "store", ![r].chunks = hits, ![r].matched = matched]
  BY SearchGives
<1>2. PICK matched \in SUBSET Retrieval!Chunk :
              question' = [question EXCEPT ![r].pc = "store", ![r].chunks = hits, ![r].matched = matched]
  BY <1>1
<1>3. question'[r] = [question[r] EXCEPT !.pc = "store", !.chunks = hits, !.matched = matched]
  BY <1>2 DEF RetrievalTyped
<1>4. question'[r] \in Question
  BY ZenonT(40), <1>3, Chunks DEF RetrievalTyped, Question
<1>5. QED
  BY <1>2, <1>3, <1>4 DEF RetrievalTyped, Only, Retrieval!Search, Question
\* stores what it found,
LEMMA StoreRecord ==
    ASSUME RetrievalTyped, NEW r \in Query, Retrieval!Store(r)
    PROVE  /\ question' \in [Query -> Question] /\ Only(r) /\ question[r].pc = "store"
           /\ question'[r] = [question[r] EXCEPT !.pc = "recheck"]
           /\ found' \in {found, [found EXCEPT ![question[r].key] = question[r].chunks]} /\ found' \in [Retrieval!Key -> Retrieval!Cached]
  BY DEF Retrieval!Store, RetrievalTyped, Question, Only, Retrieval!Cached
\* checks the grant again and looks into the cache of the answers,
LEMMA RecheckRecord ==
    ASSUME RetrievalTyped, NEW r \in Query, Retrieval!Recheck(r)
    PROVE  /\ question' \in [Query -> Question] /\ Only(r) /\ question[r].pc = "recheck"
           /\ \E p \in {"forbidden", "done", "model"} :
              \/ question'[r] = [question[r] EXCEPT !.pc = p]
              \/ /\ ~Retrieval!Forbidden(question[r].key)
                 /\ question'[r] = [question[r] EXCEPT !.pc = "done", !.cites = answers[question[r].key]]
<1>1. question[r].pc = "recheck" /\ question[r] \in Question
  BY DEF Retrieval!Recheck, RetrievalTyped
<1>2. answers[question[r].key] \in (SUBSET Retrieval!Chunk) \cup {Retrieval!Nothing}
  BY DEF RetrievalTyped, Retrieval!Cached, Question
<1>3. ASSUME NEW p \in {"forbidden", "done", "model"}, question' = [question EXCEPT ![r].pc = p]
      PROVE  question' \in [Query -> Question] /\ Only(r) /\ question'[r] = [question[r] EXCEPT !.pc = p]
  BY <1>1, <1>3 DEF RetrievalTyped, Question, Only
<1>4. ASSUME answers[question[r].key] # Retrieval!Nothing,
             question' = [question EXCEPT ![r] = [@ EXCEPT !.pc = "done", !.cites = answers[question[r].key]]]
      PROVE  question' \in [Query -> Question] /\ Only(r)
             /\ question'[r] = [question[r] EXCEPT !.pc = "done", !.cites = answers[question[r].key]]
  <2>1. [question[r] EXCEPT !.pc = "done", !.cites = answers[question[r].key]] \in Question
    BY <1>1, <1>2, <1>4, GivenChunks
  <2> QED BY <1>4, <2>1 DEF RetrievalTyped, Only
<1>5. \/ \E p \in {"forbidden", "done", "model"} : question' = [question EXCEPT ![r].pc = p]
      \/ /\ ~Retrieval!Forbidden(question[r].key) /\ answers[question[r].key] # Retrieval!Nothing
         /\ question' = [question EXCEPT ![r] = [@ EXCEPT !.pc = "done", !.cites = answers[question[r].key]]]
  BY DEF Retrieval!Recheck
<1>6. QED
  BY <1>1, <1>3, <1>4, <1>5
\* asks the model
LEMMA CompleteRecord ==
    ASSUME RetrievalTyped, NEW r \in Query, Retrieval!Complete(r)
    PROVE  /\ question' \in [Query -> Question] /\ Only(r) /\ question[r].pc = "model"
           /\ \/ question'[r] = [question[r] EXCEPT !.pc = "keep", !.cites = question[r].chunks]
              \/ question'[r] = [question[r] EXCEPT !.pc = "failed"]
<1>1. question[r] \in Question /\ question[r].pc = "model"
  BY DEF Retrieval!Complete, RetrievalTyped
<1>2. /\ [question[r] EXCEPT !.pc = "keep", !.cites = question[r].chunks] \in Question
      /\ [question[r] EXCEPT !.pc = "failed"] \in Question
  BY <1>1 DEF Question
<1>3. \/ question' = [question EXCEPT ![r] = [question[r] EXCEPT !.pc = "keep", !.cites = question[r].chunks]]
      \/ question' = [question EXCEPT ![r] = [question[r] EXCEPT !.pc = "failed"]]
  <2>1. CASE question' = [question EXCEPT ![r].pc = "keep", ![r].cites = question[r].chunks]
    <3>1. [[question EXCEPT ![r].pc = "keep"] EXCEPT ![r].cites = question[r].chunks]
            = [question EXCEPT ![r] = [question[r] EXCEPT !.pc = "keep", !.cites = question[r].chunks]]
      BY <1>1 DEF RetrievalTyped
    <3>2. QED
      BY <2>1, <3>1
  <2>2. QED
    BY <2>1 DEF Retrieval!Complete
<1>4. QED
  BY <1>1, <1>2, <1>3 DEF RetrievalTyped, Only
\* and keeps the answer.
LEMMA KeepRecord ==
    ASSUME RetrievalTyped, NEW r \in Query, Retrieval!Keep(r)
    PROVE  /\ question' \in [Query -> Question] /\ Only(r) /\ question[r].pc = "keep"
           /\ question'[r] = [question[r] EXCEPT !.pc = "done"] /\ answers' \in [Retrieval!Key -> Retrieval!Cached]
  BY DEF Retrieval!Keep, RetrievalTyped, Question, Only, Retrieval!Cached
\* The same, field by field.
SetTo(r, p, some, cites) ==
    /\ question'[r].pc = p /\ question'[r].chunks = some /\ question'[r].cites = cites
    /\ question'[r].key = question[r].key /\ question'[r].gone = question[r].gone /\ question'[r].granted = question[r].granted
\* A question is a question, about a key.
LEMMA IsQuestion == ASSUME RetrievalTyped, NEW r \in Query PROVE question[r] \in Question /\ question[r].key \in Retrieval!Key
  BY DEF RetrievalTyped, Question
\* The three forms of such an update: the step alone,
LEMMA PcSets ==
    ASSUME NEW r \in Query, question[r] \in Question, NEW p, question'[r] = [question[r] EXCEPT !.pc = p]
    PROVE  SetTo(r, p, question[r].chunks, question[r].cites)
  BY DEF Question, SetTo
\* with chunks found,
LEMMA ChunksSet ==
    ASSUME NEW r \in Query, question[r] \in Question, NEW p, NEW c, question'[r] = [question[r] EXCEPT !.pc = p, !.chunks = c]
    PROVE  SetTo(r, p, c, question[r].cites)
  BY DEF Question, SetTo
\* with chunks cited.
LEMMA CitesSet ==
    ASSUME NEW r \in Query, question[r] \in Question, NEW p, NEW c, question'[r] = [question[r] EXCEPT !.pc = p, !.cites = c]
    PROVE  SetTo(r, p, question[r].chunks, c)
  BY DEF Question, SetTo
\* The same steps in terms of step, chunks and citations: it begins,
LEMMA BeginSets ==
    ASSUME RetrievalTyped, NEW r \in Query, NEW whose \in Asker, Retrieval!Begin(r, whose)
    PROVE  /\ question' \in [Query -> Question] /\ Only(r) /\ question[r].pc = "new"
           /\ question'[r].pc = "policy" /\ question'[r].gone = Retrieval!Past /\ question'[r].granted = grant
           /\ question'[r].chunks = question[r].chunks /\ question'[r].cites = question[r].cites
<1>1. question'[r] = [question[r] EXCEPT !.pc = "policy", !.key = whose, !.gone = Retrieval!Past, !.granted = grant]
  BY BeginRecord
<1>2. /\ question'[r].pc = "policy" /\ question'[r].gone = Retrieval!Past /\ question'[r].granted = grant
      /\ question'[r].chunks = question[r].chunks /\ question'[r].cites = question[r].cites
  BY <1>1, IsQuestion DEF Question
<1>3. QED
  BY <1>2, BeginRecord
\* checks the grant,
LEMMA CheckSets ==
    ASSUME RetrievalTyped, NEW r \in Query, Retrieval!Check(r)
    PROVE  /\ question' \in [Query -> Question] /\ Only(r) /\ question[r].pc = "policy"
           /\ SetTo(r, IF Retrieval!Forbidden(question[r].key) THEN "forbidden" ELSE "lookup", question[r].chunks, question[r].cites)
  BY IsQuestion, CheckRecord, PcSets
\* looks into the cache,
LEMMA LookupSets ==
    ASSUME RetrievalTyped, NEW r \in Query, Retrieval!Lookup(r)
    PROVE  /\ question' \in [Query -> Question] /\ Only(r) /\ question[r].pc = "lookup"
           /\ \/ SetTo(r, "search", question[r].chunks, question[r].cites)
              \/ found[question[r].key] # Retrieval!Nothing /\ SetTo(r, "recheck", found[question[r].key], question[r].cites)
<1>1. question[r] \in Question
  BY IsQuestion
<1>2. CASE question'[r] = [question[r] EXCEPT !.pc = "search"]
  BY <1>1, <1>2, LookupRecord, PcSets
<1>3. CASE found[question[r].key] # Retrieval!Nothing /\ question'[r] = [question[r] EXCEPT !.pc = "recheck", !.chunks = found[question[r].key]]
  BY <1>1, <1>3, LookupRecord, ChunksSet
<1>4. QED
  BY <1>2, <1>3, LookupRecord
\* stores,
LEMMA StoreSets ==
    ASSUME RetrievalTyped, NEW r \in Query, Retrieval!Store(r)
    PROVE  /\ question' \in [Query -> Question] /\ Only(r) /\ question[r].pc = "store"
           /\ SetTo(r, "recheck", question[r].chunks, question[r].cites)
           /\ found' \in {found, [found EXCEPT ![question[r].key] = question[r].chunks]} /\ found' \in [Retrieval!Key -> Retrieval!Cached]
  BY IsQuestion, StoreRecord, PcSets
\* checks again,
LEMMA RecheckSets ==
    ASSUME RetrievalTyped, NEW r \in Query, Retrieval!Recheck(r)
    PROVE  /\ question' \in [Query -> Question] /\ Only(r) /\ question[r].pc = "recheck"
           /\ \E p \in {"forbidden", "done", "model"} : \E c : SetTo(r, p, question[r].chunks, c)
<1>1. question[r] \in Question
  BY IsQuestion
<1>2. PICK p \in {"forbidden", "done", "model"} :
              \/ question'[r] = [question[r] EXCEPT !.pc = p]
              \/ question'[r] = [question[r] EXCEPT !.pc = "done", !.cites = answers[question[r].key]]
  BY RecheckRecord
<1>3. CASE question'[r] = [question[r] EXCEPT !.pc = p]
  BY <1>1, <1>3, RecheckRecord, PcSets
<1>4. CASE question'[r] = [question[r] EXCEPT !.pc = "done", !.cites = answers[question[r].key]]
  BY <1>1, <1>4, RecheckRecord, CitesSet
<1>5. QED
  BY <1>2, <1>3, <1>4
\* asks the model
LEMMA CompleteSets ==
    ASSUME RetrievalTyped, NEW r \in Query, Retrieval!Complete(r)
    PROVE  /\ question' \in [Query -> Question] /\ Only(r) /\ question[r].pc = "model"
           /\ \E p \in {"keep", "failed"} : \E c : SetTo(r, p, question[r].chunks, c)
<1>1. question[r] \in Question
  BY IsQuestion
<1>2. CASE question'[r] = [question[r] EXCEPT !.pc = "keep", !.cites = question[r].chunks]
  BY <1>1, <1>2, CompleteRecord, CitesSet
<1>3. CASE question'[r] = [question[r] EXCEPT !.pc = "failed"]
  BY <1>1, <1>3, CompleteRecord, PcSets
<1>4. QED
  BY <1>2, <1>3, CompleteRecord
\* and keeps the answer.
LEMMA KeepSets ==
    ASSUME RetrievalTyped, NEW r \in Query, Retrieval!Keep(r)
    PROVE  /\ question' \in [Query -> Question] /\ Only(r) /\ question[r].pc = "keep"
           /\ SetTo(r, "done", question[r].chunks, question[r].cites) /\ answers' \in [Retrieval!Key -> Retrieval!Cached]
  BY IsQuestion, KeepRecord, PcSets
\* An invalidation leaves caches of chunks.
LEMMA RetrievalInvalidateSets ==
    ASSUME RetrievalTyped, NEW d \in Doc, Retrieval!Invalidate(d)
    PROVE  found' \in [Retrieval!Key -> Retrieval!Cached] /\ raced' \subseteq Retrieval!Chunk
<1>1. <<d, chunk[d]>> \in Retrieval!Chunk
  BY Chunks DEF Retrieval!Invalidate
<1>2. PICK cleared \in SUBSET {k \in Retrieval!Key : k[1] = "teacher"} :
        /\ found' = [k \in Retrieval!Key |-> IF k \in cleared THEN Retrieval!Nothing ELSE found[k]]
        /\ raced' \in {raced, raced \cup {<<d, chunk[d]>>}}
  BY DEF Retrieval!Invalidate
<1>3. \A k \in Retrieval!Key : found[k] \in Retrieval!Cached /\ Retrieval!Nothing \in Retrieval!Cached
  BY DEF RetrievalTyped, Retrieval!Cached
<1>4. QED
  BY <1>1, <1>2, <1>3 DEF RetrievalTyped
\* The retrieval keeps its types.
LEMMA TypedStep == RetrievalTyped /\ [Retrieval!Next]_retrievalVars => RetrievalTyped'
<1> SUFFICES ASSUME RetrievalTyped, [Retrieval!Next]_retrievalVars PROVE RetrievalTyped'
  OBVIOUS
<1> USE RetrievalAssumed DEF Retrieval!RetrievalAssumption
<1>1. CASE UNCHANGED retrievalVars
  BY <1>1 DEF retrievalVars, RetrievalTyped, Writers
<1>2. ASSUME NEW r \in Query, NEW whose \in Asker, Retrieval!Begin(r, whose) PROVE RetrievalTyped'
  BY <1>2, BeginSets DEF Retrieval!Begin, RetrievalTyped, Writers
<1>3. ASSUME NEW r \in Query, Retrieval!Check(r) PROVE RetrievalTyped'
  BY <1>3, CheckSets DEF Retrieval!Check, RetrievalTyped, Writers
<1>4. ASSUME NEW r \in Query, Retrieval!Lookup(r) PROVE RetrievalTyped'
  BY <1>4, LookupSets DEF Retrieval!Lookup, RetrievalTyped, Writers
<1>5. ASSUME NEW r \in Query, Retrieval!Search(r) PROVE RetrievalTyped'
  <2>1. {<<d, chunk[d]>> : d \in {e \in Doc : writer[e] \in {"unindexed", "deleted"}}} \subseteq Retrieval!Chunk
    BY Chunks
  <2>2. raced' \subseteq Retrieval!Chunk
    BY <1>5, <2>1 DEF Retrieval!Search, RetrievalTyped
  <2>3. UNCHANGED <<chunk, writer, grant, found, answers>>
    BY <1>5 DEF Retrieval!Search
  <2>4. QED
    BY <1>5, <2>2, <2>3, SearchSets DEF RetrievalTyped, Writers
<1>6. ASSUME NEW r \in Query, Retrieval!Store(r) PROVE RetrievalTyped'
  BY <1>6, StoreSets DEF Retrieval!Store, RetrievalTyped, Writers
<1>7. ASSUME NEW r \in Query, Retrieval!Recheck(r) PROVE RetrievalTyped'
  BY <1>7, RecheckSets DEF Retrieval!Recheck, RetrievalTyped, Writers
<1>8. ASSUME NEW r \in Query, Retrieval!Complete(r) PROVE RetrievalTyped'
  BY <1>8, CompleteSets DEF Retrieval!Complete, RetrievalTyped, Writers
<1>9. ASSUME NEW r \in Query, Retrieval!Keep(r) PROVE RetrievalTyped'
  BY <1>9, KeepSets DEF Retrieval!Keep, RetrievalTyped, Writers
<1>10. ASSUME NEW d \in Doc, Retrieval!Replace(d) \/ Retrieval!Delete(d) PROVE RetrievalTyped'
  BY <1>10 DEF Retrieval!Replace, Retrieval!Delete, RetrievalTyped, Writers
<1>11. ASSUME NEW d \in Doc, Retrieval!Invalidate(d) PROVE RetrievalTyped'
  BY <1>11, RetrievalInvalidateSets DEF Retrieval!Invalidate, RetrievalTyped, Writers
<1>12. ASSUME NEW d \in Doc, Retrieval!CommitWriter(d) PROVE RetrievalTyped'
  BY <1>12 DEF Retrieval!CommitWriter, RetrievalTyped, Writers
<1>13. CASE Retrieval!Revoke
  BY <1>13 DEF Retrieval!Revoke, RetrievalTyped, Writers
<1>14. ASSUME NEW k \in Retrieval!Key, Retrieval!ExpireFound(k) \/ Retrieval!ExpireAnswer(k) PROVE RetrievalTyped'
  <2>1. Retrieval!Nothing \in Retrieval!Cached
    BY DEF Retrieval!Cached
  <2>2. found' \in [Retrieval!Key -> Retrieval!Cached] /\ answers' \in [Retrieval!Key -> Retrieval!Cached]
    BY <1>14, <2>1 DEF Retrieval!ExpireFound, Retrieval!ExpireAnswer, RetrievalTyped
  <2>3. UNCHANGED <<chunk, writer, grant, question, raced>>
    BY <1>14 DEF Retrieval!ExpireFound, Retrieval!ExpireAnswer
  <2>4. QED
    BY <2>2, <2>3 DEF RetrievalTyped, Writers
<1>15. QED
  BY <1>1, <1>2, <1>3, <1>4, <1>5, <1>6, <1>7, <1>8, <1>9, <1>10, <1>11, <1>12, <1>13, <1>14 DEF Retrieval!Next

\* The classroom's grant is looked at before anything is given; a request that
\* has passed is one that was granted.
LEMMA PassedStays ==
    ASSUME RetrievalTyped, Refused, NEW r \in Query, Only(r), UNCHANGED grant,
           question'[r].key = question[r].key, question'[r].granted = question[r].granted,
           question[r].pc \notin {"new", "policy", "forbidden"}, question'[r].pc \notin {"new", "policy"}
    PROVE  Refused'
  BY DEF Refused, Students, Only
\* A question that began after the revocation finds nothing of the owner.
LEMMA RefusedStep == RetrievalTyped /\ Refused /\ [Retrieval!Next]_retrievalVars => Refused'
<1> SUFFICES ASSUME RetrievalTyped, Refused, [Retrieval!Next]_retrievalVars PROVE Refused'
  OBVIOUS
<1>0. \A q \in Query : question[q] \in Question
  BY DEF RetrievalTyped
<1>1. CASE UNCHANGED <<question, grant>>
  BY <1>1 DEF Refused, Students
<1>2. ASSUME NEW r \in Query, NEW whose \in Asker, Retrieval!Begin(r, whose) PROVE Refused'
  <2>1. /\ question'[r].pc = "policy" /\ question'[r].granted = grant
        /\ question'[r].chunks = question[r].chunks /\ question'[r].cites = question[r].cites
    BY <1>2, BeginSets DEF SetTo
  <2>2. grant' = grant /\ Only(r) /\ question[r].pc = "new"
    BY <1>2, BeginSets DEF Retrieval!Begin
  <2>3. QED
    BY <2>1, <2>2 DEF Refused, Students, Only
<1>3. ASSUME NEW r \in Query, Retrieval!Check(r) PROVE Refused'
  <2>1. /\ question'[r].pc = (IF Retrieval!Forbidden(question[r].key) THEN "forbidden" ELSE "lookup") /\ question'[r].granted = question[r].granted
        /\ question'[r].chunks = question[r].chunks /\ question'[r].cites = question[r].cites /\ question'[r].key = question[r].key
    BY <1>3, CheckSets DEF SetTo
  <2>2. grant' = grant /\ Only(r) /\ question[r].pc = "policy"
    BY <1>3, CheckSets DEF Retrieval!Check
  <2>3. Students(r) /\ ~question[r].granted => question'[r].pc = "forbidden"
    <3>1. Students(r) => question[r].key[2] = TRUE
      BY DEF Students
    <3>2. ~question[r].granted => ~grant
      BY DEF Refused
    <3>3. Students(r) /\ ~question[r].granted => Retrieval!Forbidden(question[r].key)
      BY <3>1, <3>2, Zenon DEF Retrieval!Forbidden, Retrieval!CanAccessProject
    <3>4. QED
      BY <2>1, <3>3
  <2>4. question'[r].pc \notin {"new", "policy"}
    BY <2>1
  <2>5. QED
    BY ZenonT(40), <2>1, <2>2, <2>3, <2>4 DEF Refused, Students, Only
<1>4. ASSUME NEW r \in Query, Retrieval!Lookup(r) \/ Retrieval!Search(r) \/ Retrieval!Store(r) \/ Retrieval!Recheck(r) \/ Retrieval!Complete(r) \/ Retrieval!Keep(r)
      PROVE  Refused'
  <2>1. /\ Only(r) /\ question'[r].key = question[r].key /\ question'[r].granted = question[r].granted
        /\ question[r].pc \notin {"new", "policy", "forbidden"} /\ question'[r].pc \notin {"new", "policy"}
    <3>1. CASE Retrieval!Lookup(r)
      BY <3>1, LookupSets DEF SetTo
    <3>2. CASE Retrieval!Search(r)
      BY <3>2, SearchSets
    <3>3. CASE Retrieval!Store(r)
      BY <3>3, StoreSets DEF SetTo
    <3>4. CASE Retrieval!Recheck(r)
      BY <3>4, RecheckSets DEF SetTo
    <3>5. CASE Retrieval!Complete(r)
      BY <3>5, CompleteSets DEF SetTo
    <3>6. CASE Retrieval!Keep(r)
      BY <3>6, KeepSets DEF SetTo
    <3>7. QED
      BY <1>4, <3>1, <3>2, <3>3, <3>4, <3>5, <3>6
  <2>2. UNCHANGED grant
    BY <1>4 DEF Retrieval!Lookup, Retrieval!Search, Retrieval!Store, Retrieval!Recheck, Retrieval!Complete,
       Retrieval!Keep
  <2>3. QED
    BY <2>1, <2>2, PassedStays
<1>10. CASE Retrieval!Revoke
  BY <1>10 DEF Retrieval!Revoke, Refused, Students
<1>11. QED
  BY <1>1, <1>2, <1>3, <1>4, <1>10
     DEF Retrieval!Next, retrievalVars, Retrieval!Replace, Retrieval!Delete, Retrieval!Invalidate,
     Retrieval!CommitWriter, Retrieval!ExpireFound, Retrieval!ExpireAnswer

\* What is sound stays so while documents change as their writers may.
Orderly ==
    /\ raced \subseteq raced'
    /\ \A d \in Doc : \/ /\ chunk'[d] = chunk[d]
                         /\ writer'[d] \in {"unindexed", "deleted"} => writer[d] \in {"unindexed", "deleted"}
                      \/ writer[d] \in {"unindexed", "deleted"}
\* A live chunk is the current one of its document.
LEMMA LivePairs == ASSUME RetrievalTyped PROVE \A c \in Retrieval!Live : c[1] \in Doc /\ c = <<c[1], chunk[c[1]]>> /\ chunk[c[1]] > 0
  BY DEF Retrieval!Live
\* Chunks that were sound stay so, or raced with the change that removed them.
LEMMA SoundStays ==
    ASSUME RetrievalTyped, Orderly, NEW set, Sound(set), RetrievalTyped'
    PROVE  \A c \in set : c \in raced' \/ (c \in Retrieval!Live' /\ writer'[c[1]] \notin {"unindexed", "deleted"})
<1> SUFFICES ASSUME NEW c \in set, c \notin raced'
    PROVE  c \in Retrieval!Live' /\ writer'[c[1]] \notin {"unindexed", "deleted"}
  OBVIOUS
<1>1. c \in Retrieval!Live /\ writer[c[1]] \notin {"unindexed", "deleted"}
  BY DEF Sound, Orderly
<1>2. c[1] \in Doc /\ c = <<c[1], chunk[c[1]]>> /\ chunk[c[1]] > 0
  BY <1>1, LivePairs
<1>3. chunk'[c[1]] = chunk[c[1]] /\ writer'[c[1]] \notin {"unindexed", "deleted"}
  BY <1>1, <1>2 DEF Orderly
<1>4. QED
  BY <1>2, <1>3 DEF Retrieval!Live

\* Nothing that is gone comes back.
LEMMA GoneStays == ASSUME RetrievalTyped, RetrievalTyped', \A d \in Doc : chunk'[d] = chunk[d] \/ chunk'[d] = 0 \/ (chunk'[d] = chunk[d] + 1 /\ chunk[d] > 0)
                   PROVE Retrieval!Past \subseteq Retrieval!Past'
<1> SUFFICES ASSUME NEW c \in Retrieval!Chunk, chunk[c[1]] = 0 \/ c[2] < chunk[c[1]]
    PROVE  chunk'[c[1]] = 0 \/ c[2] < chunk'[c[1]]
  BY DEF Retrieval!Past
<1>1. c[1] \in Doc /\ c[2] \in Nat
  BY RetrievalAssumed DEF Retrieval!RetrievalAssumption, Retrieval!Chunk
<1>2. QED
  BY <1>1, RetrievalAssumed DEF Retrieval!RetrievalAssumption, RetrievalTyped
\* No chunk is both live and gone.
LEMMA LiveNotPast == ASSUME RetrievalTyped PROVE Retrieval!Live \cap Retrieval!Past = {}
<1> SUFFICES ASSUME NEW c \in Retrieval!Live, c \in Retrieval!Past PROVE FALSE
  OBVIOUS
<1>1. c[1] \in Doc /\ c = <<c[1], chunk[c[1]]>> /\ chunk[c[1]] > 0
  BY LivePairs
<1>2. chunk[c[1]] \in Nat
  BY <1>1, RetrievalAssumed DEF Retrieval!RetrievalAssumption, RetrievalTyped
<1>3. QED
  BY <1>1, <1>2 DEF Retrieval!Past

FreshReq(q) ==
    /\ question[q].gone \subseteq Retrieval!Past
    /\ question[q].pc \in {"new", "policy", "lookup", "search"} => question[q].chunks = {}
    /\ question[q].key[1] = "teacher" =>
              /\ question[q].pc = "store" => Sound(question[q].chunks)
              /\ question[q].chunks \cap question[q].gone \subseteq raced
FreshCache == \A k \in Retrieval!Key : k[1] = "teacher" /\ found[k] # Retrieval!Nothing => Sound(found[k])
\* Freshness, of the cache and of each question.
LEMMA FreshParts == Fresh <=> FreshCache /\ \A q \in Query : FreshReq(q)
  BY DEF Fresh, FreshCache, FreshReq

\* A request that does not move keeps what it has.
LEMMA OthersFresh ==
    ASSUME RetrievalTyped, RetrievalTyped', Orderly, Retrieval!Past \subseteq Retrieval!Past', NEW q \in Query, FreshReq(q), question'[q] = question[q]
    PROVE  FreshReq(q)'
<1>1. Sound(question[q].chunks) =>
        \A c \in question'[q].chunks : c \in raced' \/ (c \in Retrieval!Live' /\ writer'[c[1]] \notin {"unindexed", "deleted"})
  BY SoundStays
<1>2. question[q].key[1] = "teacher" /\ question[q].pc = "store" => Sound(question[q].chunks)'
  BY <1>1 DEF FreshReq, Sound
<1>3. QED
  BY <1>2 DEF FreshReq, Orderly
\* An entry that survives a step holds sound chunks.
LEMMA CacheFresh ==
    ASSUME RetrievalTyped, RetrievalTyped', Orderly, FreshCache, NEW k \in Retrieval!Key, k[1] = "teacher", found[k] # Retrieval!Nothing, found'[k] = found[k]
    PROVE  Sound(found[k])'
<1>1. Sound(found[k])
  BY DEF FreshCache
<1>2. \A c \in found'[k] : c \in raced' \/ (c \in Retrieval!Live' /\ writer'[c[1]] \notin {"unindexed", "deleted"})
  BY <1>1, SoundStays
<1>3. QED
  BY <1>2 DEF Sound

\* Every step keeps caches and questions fresh.
LEMMA FreshStep == RetrievalTyped /\ RetrievalTyped' /\ Fresh /\ [Retrieval!Next]_retrievalVars => Fresh'
<1> SUFFICES ASSUME RetrievalTyped, RetrievalTyped', Fresh, [Retrieval!Next]_retrievalVars PROVE FreshCache' /\ \A q \in Query : FreshReq(q)'
  BY DEF Fresh, FreshCache, FreshReq
<1>0. FreshCache /\ (\A q \in Query : FreshReq(q))
  BY FreshParts
<1>q. \A q \in Query : question[q] \in Question
  BY DEF RetrievalTyped
<1>1. CASE UNCHANGED retrievalVars
  <2>1. Retrieval!Live' = Retrieval!Live /\ Retrieval!Past' = Retrieval!Past
    BY <1>1 DEF retrievalVars, Retrieval!Live, Retrieval!Past
  <2>2. QED
    BY <1>0, <1>1, <2>1 DEF retrievalVars, FreshCache, FreshReq, Sound
<1>2. ASSUME NEW r \in Query, UNCHANGED <<chunk, writer, found, raced>>, Only(r), FreshReq(r)'
      PROVE  FreshCache' /\ \A q \in Query : FreshReq(q)'
  <2>1. Orderly /\ Retrieval!Past \subseteq Retrieval!Past' /\ Retrieval!Live' = Retrieval!Live
    BY <1>2 DEF Orderly, Retrieval!Past, Retrieval!Live
  <2>2. FreshCache'
    BY <1>0, <1>2, <2>1 DEF FreshCache, Sound
  <2>3. QED
    BY <1>0, <1>2, <2>1, <2>2, OthersFresh DEF Only
<1>3. ASSUME UNCHANGED <<chunk, writer, grant, question, raced>>, \A k \in Retrieval!Key : found'[k] \in {found[k], Retrieval!Nothing}
      PROVE  FreshCache' /\ \A q \in Query : FreshReq(q)'
  <2>1. Orderly /\ Retrieval!Past \subseteq Retrieval!Past' /\ Retrieval!Live' = Retrieval!Live
    BY <1>3 DEF Orderly, Retrieval!Past, Retrieval!Live
  <2>2. FreshCache'
    BY <1>0, <1>3, <2>1 DEF FreshCache, Sound
  <2>3. QED
    BY <1>0, <1>3, <2>1, <2>2, OthersFresh
<1>4. ASSUME Orderly, Retrieval!Past \subseteq Retrieval!Past', UNCHANGED <<found, question>>
      PROVE  FreshCache' /\ \A q \in Query : FreshReq(q)'
  <2>1. FreshCache'
    BY <1>0, <1>4, CacheFresh DEF FreshCache
  <2>2. QED
    BY <1>0, <1>4, <2>1, OthersFresh
<1>5. ASSUME NEW r \in Query, NEW whose \in Asker, Retrieval!Begin(r, whose) PROVE FreshReq(r)'
  <2>1. /\ question'[r].gone = Retrieval!Past /\ question'[r].pc = "policy" /\ question'[r].chunks = question[r].chunks /\ question[r].pc = "new"
    BY <1>5, BeginSets DEF SetTo
  <2>2. Retrieval!Past' = Retrieval!Past /\ question[r].chunks = {}
    BY <1>0, <1>5, <2>1 DEF Retrieval!Begin, Retrieval!Past, FreshReq
  <2>3. QED
    BY <2>1, <2>2 DEF FreshReq
<1>6. ASSUME NEW r \in Query, Retrieval!Check(r) PROVE FreshReq(r)'
  <2>1. /\ question'[r].gone = question[r].gone /\ question'[r].pc \in {"forbidden", "lookup"} /\ question'[r].chunks = question[r].chunks
        /\ question[r].pc = "policy" /\ question'[r].key = question[r].key
    BY <1>6, CheckSets DEF SetTo
  <2>2. Retrieval!Past' = Retrieval!Past /\ raced' = raced
    BY <1>6 DEF Retrieval!Check, Retrieval!Past
  <2>3. QED
    BY <1>0, <2>1, <2>2 DEF FreshReq
<1>7. ASSUME NEW r \in Query, Retrieval!Lookup(r) PROVE FreshReq(r)'
  <2>1. /\ question'[r].gone = question[r].gone /\ question[r].pc = "lookup" /\ question'[r].key = question[r].key
        /\ \/ question'[r].pc = "search" /\ question'[r].chunks = question[r].chunks
           \/ question'[r].pc = "recheck" /\ question'[r].chunks = found[question[r].key] /\ found[question[r].key] # Retrieval!Nothing
    BY <1>7, LookupSets DEF SetTo
  <2>2. Retrieval!Past' = Retrieval!Past /\ raced' = raced
    BY <1>7 DEF Retrieval!Lookup, Retrieval!Past
  <2>3. ASSUME question[r].key[1] = "teacher", found[question[r].key] # Retrieval!Nothing
        PROVE  found[question[r].key] \cap question[r].gone \subseteq raced
    <3>0. question[r].key \in Retrieval!Key
      BY <1>q DEF Question
    <3>1. Sound(found[question[r].key])
      BY <1>0, <2>3, <3>0 DEF FreshCache
    <3>2. question[r].gone \cap Retrieval!Live = {}
      BY <1>0, LiveNotPast DEF FreshReq
    <3>3. QED
      BY <3>1, <3>2 DEF Sound
  <2>4. QED
    BY <1>0, <2>1, <2>2, <2>3 DEF FreshReq
<1>8. ASSUME NEW r \in Query, Retrieval!Search(r) PROVE FreshCache' /\ \A q \in Query : FreshReq(q)'
  <2>1. UNCHANGED <<chunk, writer, grant, found, answers>> /\ raced \subseteq raced'
    BY <1>8 DEF Retrieval!Search
  <2>2. Orderly /\ Retrieval!Past' = Retrieval!Past /\ Retrieval!Live' = Retrieval!Live
    BY <2>1 DEF Orderly, Retrieval!Past, Retrieval!Live
  <2>3. FreshCache'
    BY <1>0, <2>1, <2>2 DEF FreshCache, Sound
  <2>4. /\ Only(r) /\ question'[r].key = question[r].key /\ question'[r].gone = question[r].gone
        /\ question'[r].pc = "store" /\ question'[r].chunks \subseteq Retrieval!Live
    BY <1>8, SearchSets
  <2>5. question[r].key[1] = "teacher" => Sound(question[r].chunks)'
    <3>1. SUFFICES ASSUME question[r].key[1] = "teacher", NEW c \in question'[r].chunks, writer[c[1]] \in {"unindexed", "deleted"}
          PROVE  c \in raced'
      BY <2>1, <2>2, <2>4 DEF Sound
    <3>2. c[1] \in Doc /\ c = <<c[1], chunk[c[1]]>>
      BY <2>4, LivePairs
    <3>3. raced' = raced \cup {<<d, chunk[d]>> : d \in {e \in Doc : writer[e] \in {"unindexed", "deleted"}}}
      BY <1>8, <3>1 DEF Retrieval!Search
    <3>4. QED
      BY <3>1, <3>2, <3>3
  <2>6. question'[r].chunks \cap question[r].gone = {}
    BY <1>0, <2>4, LiveNotPast DEF FreshReq
  <2>7. FreshReq(r)'
    BY <1>0, <2>2, <2>4, <2>5, <2>6 DEF FreshReq
  <2>8. QED
    BY <1>0, <2>2, <2>3, <2>4, <2>7, OthersFresh DEF Only
<1>9. ASSUME NEW r \in Query, Retrieval!Store(r) PROVE FreshCache' /\ \A q \in Query : FreshReq(q)'
  <2>1. UNCHANGED <<chunk, writer, grant, raced>>
    BY <1>9 DEF Retrieval!Store
  <2>2. Orderly /\ Retrieval!Past' = Retrieval!Past /\ Retrieval!Live' = Retrieval!Live
    BY <2>1 DEF Orderly, Retrieval!Past, Retrieval!Live
  <2>3. /\ question'[r].gone = question[r].gone /\ question'[r].pc = "recheck" /\ question'[r].chunks = question[r].chunks
        /\ question[r].pc = "store" /\ question'[r].key = question[r].key
    BY <1>9, StoreSets DEF SetTo
  <2>9. question[r].key \in Retrieval!Key
    BY <1>q DEF Question
  <2>4. FreshReq(r)'
    BY <1>0, <2>1, <2>2, <2>3 DEF FreshReq
  <2>5. \A k \in Retrieval!Key : found'[k] = found[k] \/ (k = question[r].key /\ found'[k] = question[r].chunks)
    BY <1>9, <2>9, StoreSets DEF RetrievalTyped
  <2>6. question[r].key[1] = "teacher" => Sound(question[r].chunks)
    BY <1>0, <2>3 DEF FreshReq
  <2>7. FreshCache'
    BY <1>0, <2>1, <2>2, <2>5, <2>6, <2>9 DEF FreshCache, Sound
  <2>8. QED
    BY <1>0, <1>9, <2>2, <2>4, <2>7, OthersFresh, StoreSets DEF Only
<1>10. ASSUME NEW r \in Query, Retrieval!Recheck(r) \/ Retrieval!Complete(r) \/ Retrieval!Keep(r) PROVE FreshReq(r)'
  <2>1. /\ question'[r].gone = question[r].gone /\ question'[r].pc \in {"forbidden", "done", "model", "keep", "failed"}
        /\ question'[r].chunks = question[r].chunks /\ question'[r].key = question[r].key
    <3>1. CASE Retrieval!Recheck(r)
      BY <3>1, RecheckSets DEF SetTo
    <3>2. CASE Retrieval!Complete(r)
      BY <3>2, CompleteSets DEF SetTo
    <3>3. CASE Retrieval!Keep(r)
      BY <3>3, KeepSets DEF SetTo
    <3>4. QED
      BY <1>10, <3>1, <3>2, <3>3
  <2>2. Retrieval!Past' = Retrieval!Past /\ raced' = raced
    BY <1>10 DEF Retrieval!Recheck, Retrieval!Complete, Retrieval!Keep, Retrieval!Past
  <2>3. QED
    BY <1>0, <2>1, <2>2 DEF FreshReq
<1>11. ASSUME NEW d \in Doc, Retrieval!Replace(d) \/ Retrieval!Delete(d) PROVE Orderly /\ Retrieval!Past \subseteq Retrieval!Past' /\ UNCHANGED <<found, question>>
  BY <1>11 DEF Retrieval!Replace, Retrieval!Delete, Orderly, Retrieval!Past, RetrievalTyped
<1>12. ASSUME NEW d \in Doc, Retrieval!CommitWriter(d) PROVE Orderly /\ Retrieval!Past \subseteq Retrieval!Past' /\ UNCHANGED <<found, question>>
  <2>1. \A e \in Doc : chunk'[e] = chunk[e] \/ chunk'[e] = 0 \/ (chunk'[e] = chunk[e] + 1 /\ chunk[e] > 0)
    BY <1>12 DEF Retrieval!CommitWriter, RetrievalTyped, Writers
  <2>2. Orderly
    BY <1>12 DEF Retrieval!CommitWriter, Orderly, RetrievalTyped
  <2>3. QED
    BY <1>12, <2>1, <2>2, GoneStays DEF Retrieval!CommitWriter
<1>13. ASSUME NEW d \in Doc, Retrieval!Invalidate(d) PROVE FreshCache' /\ \A q \in Query : FreshReq(q)'
  <2>1. /\ raced \subseteq raced' /\ chunk' = chunk /\ question' = question
        /\ \A e \in Doc \ {d} : writer'[e] = writer[e]
    BY <1>13 DEF Retrieval!Invalidate, RetrievalTyped
  <2>2. Retrieval!Past' = Retrieval!Past /\ Retrieval!Live' = Retrieval!Live
    BY <2>1 DEF Retrieval!Past, Retrieval!Live
  <2>3. ASSUME NEW k \in Retrieval!Key, k[1] = "teacher", found'[k] # Retrieval!Nothing PROVE Sound(found[k])' /\ found'[k] = found[k]
    <3>1. /\ found'[k] = found[k]
          /\ <<d, chunk[d]>> \in found[k] => <<d, chunk[d]>> \in raced'
      <4>1. PICK cleared \in SUBSET {c \in Retrieval!Key : c[1] = "teacher"} :
              /\ found' = [c \in Retrieval!Key |-> IF c \in cleared THEN Retrieval!Nothing ELSE found[c]]
              /\ (\E c \in Retrieval!Key \ cleared : c[1] = "teacher" /\ <<d, chunk[d]>> \in found[c])
                   => <<d, chunk[d]>> \in raced'
        BY <1>13 DEF Retrieval!Invalidate
      <4> QED BY <2>3, <4>1
    <3>2. Sound(found[k])
      BY <1>0, <2>3, <3>1 DEF FreshCache
    <3>3. ASSUME NEW c \in found[k], c \notin raced'
          PROVE  c \in Retrieval!Live /\ writer'[c[1]] \notin {"unindexed", "deleted"}
      <4>1. c \in Retrieval!Live /\ writer[c[1]] \notin {"unindexed", "deleted"}
        BY <2>1, <3>2, <3>3 DEF Sound
      <4>2. c[1] \in Doc /\ c = <<c[1], chunk[c[1]]>>
        BY <4>1, LivePairs
      <4>3. c[1] # d
        BY <3>1, <3>3, <4>2
      <4> QED BY <2>1, <4>1, <4>2, <4>3
    <3> QED BY <2>2, <3>1, <3>3 DEF Sound
  <2>9. FreshCache'
    BY <2>3 DEF FreshCache
  <2>4. ASSUME NEW q \in Query, question[q].key[1] = "teacher", question[q].pc = "store", NEW c \in question[q].chunks
        PROVE  c \in raced' \/ (c \in Retrieval!Live' /\ writer'[c[1]] \notin {"unindexed", "deleted"})
    <3>1. c \in raced \/ (c \in Retrieval!Live /\ writer[c[1]] \notin {"unindexed", "deleted"})
      BY <1>0, <2>4 DEF FreshReq, Sound
    <3>2. <<d, chunk[d]>> \in raced'
      BY <1>13, <2>4 DEF Retrieval!Invalidate
    <3>3. c \in Retrieval!Live => c[1] \in Doc /\ c = <<c[1], chunk[c[1]]>>
      BY LivePairs
    <3>4. QED
      BY <2>1, <2>2, <3>1, <3>2, <3>3
  <2>5. \A q \in Query : FreshReq(q)'
    BY <1>0, <2>1, <2>2, <2>4 DEF FreshReq, Sound
  <2>6. QED
    BY <2>5, <2>9
<1>14. ASSUME Retrieval!Revoke PROVE Orderly /\ Retrieval!Past \subseteq Retrieval!Past' /\ UNCHANGED <<found, question>>
  BY <1>14 DEF Retrieval!Revoke, Orderly, Retrieval!Past
<1>15. ASSUME NEW k \in Retrieval!Key, Retrieval!ExpireFound(k) \/ Retrieval!ExpireAnswer(k)
       PROVE  UNCHANGED <<chunk, writer, grant, question, raced>> /\ \A l \in Retrieval!Key : found'[l] \in {found[l], Retrieval!Nothing}
  BY <1>15 DEF Retrieval!ExpireFound, Retrieval!ExpireAnswer, RetrievalTyped
<1>16. ASSUME NEW r \in Query, (\E whose \in Asker : Retrieval!Begin(r, whose)) \/ Retrieval!Check(r) \/ Retrieval!Lookup(r) \/ Retrieval!Recheck(r) \/ Retrieval!Complete(r) \/ Retrieval!Keep(r)
       PROVE  UNCHANGED <<chunk, writer, found, raced>> /\ Only(r)
  BY <1>16, BeginSets, CheckSets, LookupSets, RecheckSets, CompleteSets, KeepSets
     DEF Retrieval!Begin, Retrieval!Check, Retrieval!Lookup, Retrieval!Recheck, Retrieval!Complete, Retrieval!Keep
<1>17. QED
  BY <1>1, <1>2, <1>3, <1>4, <1>5, <1>6, <1>7, <1>8, <1>9, <1>10, <1>11, <1>12, <1>13, <1>14, <1>15, <1>16
     DEF Retrieval!Next

\* The invariant of the retrieval holds initially,
LEMMA RetrievalInvInitially == Retrieval!Init => RetInv
<1> SUFFICES ASSUME Retrieval!Init PROVE RetInv
  OBVIOUS
<1>1. Retrieval!Past = {} \/ Retrieval!Past \subseteq Retrieval!Chunk
  BY DEF Retrieval!Past
<1>2. RetrievalTyped
  <2>1. <<"teacher", FALSE>> \in Retrieval!Key
    BY DEF Retrieval!Key, Retrieval!User
  <2>2. question \in [Query -> Question]
    BY <2>1 DEF Retrieval!Init, Question
  <2>3. chunk \in [Doc -> 0..MaxGeneration]
    BY RetrievalAssumed DEF Retrieval!RetrievalAssumption, Retrieval!Init
  <2>4. Writers /\ writer \in [Doc -> {"none", "indexing", "deleting", "unindexed", "deleted"}] /\ grant \in BOOLEAN
    BY DEF Retrieval!Init, Writers
  <2>5. found \in [Retrieval!Key -> Retrieval!Cached] /\ answers \in [Retrieval!Key -> Retrieval!Cached] /\ raced \subseteq Retrieval!Chunk
    BY DEF Retrieval!Init, Retrieval!Cached
  <2>6. QED
    BY <2>2, <2>3, <2>4, <2>5 DEF RetrievalTyped
<1>3. Refused
  BY DEF Retrieval!Init, Refused, Students
<1>4. Fresh
  BY DEF Retrieval!Init, Fresh, Sound
<1>5. QED
  BY <1>2, <1>3, <1>4 DEF RetInv
\* every step keeps it,
LEMMA RetrievalInvStep == RetInv /\ [Retrieval!Next]_retrievalVars => RetInv'
  BY TypedStep, RefusedStep, FreshStep DEF RetInv
\* and it implies what RetrievalIsCurrent says of documents.
LEMMA RetrievalInvSuffices == RetInv => Retrieval!RevokedSeesNothing /\ Retrieval!OwnerSeesChange
  BY DEF RetInv, Refused, Students, Fresh, Retrieval!RevokedSeesNothing, Retrieval!OwnerSeesChange

----------------------------------------------------------------------------
\* The word list.
LEMMA WordsAssumed == Dutch!WordsAssumption
  BY ServicesAssumption

\* Only the transaction past its insert has inserted the list, and the levels
\* it counts are those of the list.
Inserted ==
    /\ inserting # Nobody => ~words /\ lesson[inserting].pc \in {"clear", "work", "store", "commit"}
    /\ \A a \in Dutch!Actor : lesson[a].pc = "clear" => inserting = a
    /\ \A w \in Worker : lesson[w].kind = "levels" /\ lesson[w].on = w /\ ~lesson[w].pending
\* What a request that found the list does is not rolled back by an insert.
Late ==
    \A r \in Lesson :
        /\ lesson[r].late => words /\ lesson[r].pc # "clear"
        /\ lesson[r].late /\ lesson[r].pc = "insert" => FALSE
        /\ lesson[r].late /\ lesson[r].kind = "grade" /\ lesson[r].pc \notin {"done", "error"} => lesson[r].pending
        /\ lesson[r].late /\ lesson[r].kind = "entry" /\ lesson[r].pc = "commit" => lesson[r].pending
        /\ lesson[r].late /\ lesson[r].kind \in {"grade", "entry"} =>
             lesson[r].pc \in {"count", "work", "commit", "done", "error"}
\* Without a failed insert whoever works sees the words, and so nothing says
\* there are none.
Full ==
    ~everFailed =>
        /\ \A w \in Worker : ~gaveUp[w] /\ levelsMemory[w] # "empty"
        /\ levels # "empty"
        /\ \A a \in Dutch!Actor : /\ lesson[a].pc \in {"work", "store", "commit"} => Dutch!Visible(a)
                                  /\ lesson[a].saw # "empty"
WordsInv == Dutch!TypeOK /\ Inserted /\ Late /\ Dutch!AcknowledgedIsKept /\ Full
Requests ==
    [pc : Dutch!Closed \cup {"fetch", "copy", "count", "insert", "clear", "work", "store", "commit"},
     kind : Dutch!Kinds, on : Worker, saw : Dutch!Counts \cup {"none"}, pending : BOOLEAN, late : BOOLEAN]
\* Zero is in every range.
LEMMA ZeroIn == \A n \in Nat : 0 \in 0..n
  OBVIOUS
\* The invariant of the words holds initially.
LEMMA WordInvInitially == Dutch!Init => WordsInv
<1> SUFFICES ASSUME Dutch!Init PROVE WordsInv
  OBVIOUS
<1> USE WordsAssumed DEF Dutch!WordsAssumption, Dutch!Init, Dutch!Actor, Dutch!Idle, Dutch!Kinds, Dutch!Closed
<1>1. (CHOOSE w \in Worker : TRUE) \in Worker
  OBVIOUS
<1>2. Dutch!TypeOK
  <2>1. \A a \in Dutch!Actor : lesson[a] \in Requests
    BY <1>1 DEF Requests, Dutch!Counts
  <2>2. lesson \in [Dutch!Actor -> Requests]
    BY <2>1
  <2>3. words \in BOOLEAN /\ everFailed \in BOOLEAN /\ gaveUp \in [Worker -> BOOLEAN]
    OBVIOUS
  <2>6. restarts = 0 /\ MaxRestarts \in Nat
    OBVIOUS
  <2>7. restarts \in 0..MaxRestarts
    BY <2>6, ZeroIn
  <2>4. /\ inserting = Nobody /\ levels = "none" /\ saved = {}
        /\ levelsMemory \in [Worker -> Dutch!Counts \cup {"none"}]
    OBVIOUS
  <2>5. QED
    BY <2>2, <2>3, <2>4, <2>7 DEF Dutch!TypeOK, Requests
<1>3. QED
  BY <1>1, <1>2 DEF WordsInv, Inserted, Late, Dutch!AcknowledgedIsKept, Full, Dutch!Visible
Rest ==
    /\ words \in BOOLEAN /\ inserting \in Dutch!Actor \cup {Nobody}
    /\ gaveUp \in [Worker -> BOOLEAN] /\ everFailed \in BOOLEAN
    /\ levels \in Dutch!Counts \cup {"none"} /\ levelsMemory \in [Worker -> Dutch!Counts \cup {"none"}]
    /\ saved \subseteq Lesson /\ restarts \in 0..MaxRestarts
WordPcs == Dutch!Closed \cup {"fetch", "copy", "count", "insert", "clear", "work", "store", "commit"}
\* Two fields of a request are set at once.
LEMMA WordSets ==
    ASSUME lesson \in [Dutch!Actor -> Requests], NEW a \in Dutch!Actor, NEW pc \in WordPcs
    PROVE  /\ \A saw \in Dutch!Counts \cup {"none"} : [lesson EXCEPT ![a].pc = pc, ![a].saw = saw] \in [Dutch!Actor -> Requests]
           /\ \A p \in BOOLEAN : [lesson EXCEPT ![a].pc = pc, ![a].pending = p] \in [Dutch!Actor -> Requests]
<1>1. lesson[a] \in Requests
  OBVIOUS
<1>2. ASSUME NEW saw \in Dutch!Counts \cup {"none"}
      PROVE  [lesson EXCEPT ![a].pc = pc, ![a].saw = saw] \in [Dutch!Actor -> Requests]
  <2>1. [lesson[a] EXCEPT !.pc = pc, !.saw = saw] \in Requests
    BY <1>1 DEF Requests, WordPcs
  <2>2. [lesson EXCEPT ![a].pc = pc, ![a].saw = saw] = [lesson EXCEPT ![a] = [lesson[a] EXCEPT !.pc = pc, !.saw = saw]]
    OBVIOUS
  <2>3. QED
    BY <2>1, <2>2
<1>3. ASSUME NEW p \in BOOLEAN
      PROVE  [lesson EXCEPT ![a].pc = pc, ![a].pending = p] \in [Dutch!Actor -> Requests]
  <2>1. [lesson[a] EXCEPT !.pc = pc, !.pending = p] \in Requests
    BY <1>1 DEF Requests, WordPcs
  <2>2. [lesson EXCEPT ![a].pc = pc, ![a].pending = p] = [lesson EXCEPT ![a] = [lesson[a] EXCEPT !.pc = pc, !.pending = p]]
    OBVIOUS
  <2>3. QED
    BY <2>1, <2>2
<1>4. QED
  BY <1>2, <1>3
\* A restart ends the requests of its worker and begins its warm-up.
LEMMA RestartSets ==
    ASSUME lesson \in [Dutch!Actor -> Requests], NEW w \in Worker, Dutch!Restart(w), NEW a \in Dutch!Actor
    PROVE  /\ lesson'[a] \in Requests
           /\ \/ lesson'[a] = lesson[a] /\ (lesson[a].on # w \/ lesson[a].pc \in Dutch!Closed) /\ a # w
              \/ lesson'[a] = lesson[a] /\ lesson[a].on # w
              \/ /\ lesson'[a].pc = "count" /\ lesson'[a].kind = "levels" /\ a = w /\ lesson'[a].saw = "none"
                 /\ ~lesson'[a].pending /\ ~lesson'[a].late /\ lesson'[a].on = w
              \/ /\ a # w /\ lesson[a].on = w /\ lesson'[a].pc = "error" /\ ~lesson'[a].pending
                 /\ lesson'[a].kind = lesson[a].kind /\ lesson'[a].on = lesson[a].on /\ lesson'[a].saw = lesson[a].saw
                 /\ lesson'[a].late = lesson[a].late
<1>1. lesson[a] \in Requests
  OBVIOUS
<1>2. lesson'[a] = IF lesson[a].on # w THEN lesson[a]
                ELSE IF a = w THEN [Dutch!Idle(w) EXCEPT !.pc = "count", !.kind = "levels"]
                ELSE IF lesson[a].pc \in Dutch!Closed THEN lesson[a]
                ELSE [lesson[a] EXCEPT !.pc = "error", !.pending = FALSE]
  BY DEF Dutch!Restart, Dutch!On
<1>3. CASE lesson[a].on # w
  BY <1>1, <1>2, <1>3
<1>4. CASE lesson[a].on = w /\ a = w
  BY <1>2, <1>4 DEF Dutch!Idle, Requests, Dutch!Closed, Dutch!Kinds
<1>5. CASE lesson[a].on = w /\ a # w /\ lesson[a].pc \in Dutch!Closed
  BY <1>1, <1>2, <1>5
<1>6. CASE lesson[a].on = w /\ a # w /\ lesson[a].pc \notin Dutch!Closed
  <2>1. lesson'[a] = [lesson[a] EXCEPT !.pc = "error", !.pending = FALSE]
    BY <1>2, <1>6
  <2>2. QED
    BY <1>1, <1>6, <2>1 DEF Requests, Dutch!Closed
<1>7. QED
  BY <1>3, <1>4, <1>5, <1>6
\* The requests about words keep their type,
LEMMA ReqTyped ==
    ASSUME lesson \in [Dutch!Actor -> Requests], Rest, [Dutch!Next]_wordsVars
    PROVE  lesson' \in [Dutch!Actor -> Requests]
<1> DEFINE G == lesson' \in [Dutch!Actor -> Requests]
<1> USE DEF Requests, Rest, Dutch!Kinds, Dutch!Counts, Dutch!Closed, Dutch!On, Dutch!Go, Dutch!Visible
<1>1. CASE UNCHANGED wordsVars
  BY <1>1 DEF wordsVars
<1>2. CASE Dutch!Expire
  BY <1>2 DEF Dutch!Expire
<1>3. ASSUME NEW w \in Worker, Dutch!Restart(w) PROVE G
  <2>1. \A a \in Dutch!Actor : lesson'[a] \in Requests
    BY <1>3, RestartSets
  <2>2. QED
    BY ZenonT(40), <1>3, <2>1 DEF Dutch!Restart
<1>4. ASSUME NEW w \in Worker, Dutch!ExpireMemory(w) PROVE G
  BY <1>4 DEF Dutch!ExpireMemory
<1>5. ASSUME NEW r \in Lesson, NEW w \in Worker, NEW kind \in Dutch!Kinds, Dutch!Begin(r, w, kind) PROVE G
  <2> DEFINE next == [Dutch!Idle(w) EXCEPT !.pc = Dutch!First(w, kind), !.kind = kind, !.pending = kind = "grade", !.late = words]
  <2>1. Dutch!First(w, kind) \in Dutch!Closed \cup {"fetch", "count"}
    BY DEF Dutch!First
  <2>2. next \in Requests
    BY <2>1 DEF Dutch!Idle
  <2>3. lesson' = [lesson EXCEPT ![r] = next] /\ r \in Dutch!Actor
    BY <1>5 DEF Dutch!Begin, Dutch!Actor
  <2>4. QED
    BY <2>2, <2>3
<1>6. ASSUME NEW a \in Dutch!Actor, Dutch!Fetch(a) PROVE G
  <2>1. (IF levels = "none" THEN "count" ELSE "copy") \in WordPcs /\ levels \in Dutch!Counts \cup {"none"}
    BY DEF Rest, WordPcs
  <2>2. QED
    BY <1>6, <2>1, WordSets DEF Dutch!Fetch
<1>7. ASSUME NEW a \in Dutch!Actor, Dutch!Copy(a) PROVE G
  BY <1>7 DEF Dutch!Copy, Requests
<1>8. ASSUME NEW a \in Dutch!Actor, Dutch!Count(a) PROVE G
  BY <1>8 DEF Dutch!Count
<1>9. ASSUME NEW a \in Dutch!Actor, Dutch!Insert(a) PROVE G
  BY <1>9 DEF Dutch!Insert
<1>10. ASSUME NEW a \in Dutch!Actor, Dutch!Conflict(a) PROVE G
  BY <1>10, WordSets DEF Dutch!Conflict, WordPcs
<1>11. ASSUME NEW a \in Dutch!Actor, Dutch!InsertError(a) PROVE G
  BY <1>11, WordSets DEF Dutch!InsertError, WordPcs
<1>12. ASSUME NEW a \in Dutch!Actor, Dutch!Clear(a) PROVE G
  BY <1>12 DEF Dutch!Clear
<1>13. ASSUME NEW a \in Dutch!Actor, Dutch!CountLevels(a) PROVE G
  BY <1>13, WordSets DEF Dutch!CountLevels, WordPcs
<1>14. ASSUME NEW a \in Dutch!Actor, Dutch!Store(a) PROVE G
  BY <1>14 DEF Dutch!Store
<1>15. ASSUME NEW a \in Dutch!Actor, Dutch!SaveEntry(a) PROVE G
  BY <1>15, WordSets DEF Dutch!SaveEntry, WordPcs
<1>16. ASSUME NEW a \in Dutch!Actor, Dutch!Other(a) PROVE G
  BY <1>16 DEF Dutch!Other
<1>17. ASSUME NEW a \in Dutch!Actor, Dutch!UpdateWordProgress(a) PROVE G
  BY <1>17, WordSets DEF Dutch!UpdateWordProgress, Dutch!Rollback, WordPcs
<1>18. ASSUME NEW a \in Dutch!Actor, Dutch!Commit(a) PROVE G
  BY <1>18, WordSets DEF Dutch!Commit, WordPcs
<1>19. QED
  BY <1>1, <1>2, <1>3, <1>4, <1>5, <1>6, <1>7, <1>8, <1>9, <1>10, <1>11, <1>12, <1>13, <1>14, <1>15, <1>16,
     <1>17, <1>18 DEF Dutch!Next, Dutch!Step
\* and so does the rest of the state.
LEMMA RestTyped ==
    ASSUME Rest, Inserted, lesson \in [Dutch!Actor -> Requests], [Dutch!Next]_wordsVars
    PROVE  Rest'
<1> DEFINE G == Rest'
<1> USE DEF Rest, Dutch!Counts, Dutch!On, Dutch!Visible
<1>1. CASE UNCHANGED wordsVars
  BY <1>1 DEF wordsVars
<1>2. CASE Dutch!Expire
  BY <1>2 DEF Dutch!Expire
<1>3. ASSUME NEW w \in Worker, Dutch!Restart(w) PROVE G
  <2>1. gaveUp' \in [Worker -> BOOLEAN] /\ levelsMemory' \in [Worker -> Dutch!Counts \cup {"none"}]
    BY <1>3 DEF Dutch!Restart
  <2>2. inserting' \in Dutch!Actor \cup {Nobody} /\ UNCHANGED <<words, everFailed, levels, saved>>
    BY <1>3 DEF Dutch!Restart
  <2>3. restarts' \in 0..MaxRestarts
    <3>1. restarts \in 0..MaxRestarts /\ restarts < MaxRestarts /\ restarts' = restarts + 1
      BY <1>3 DEF Dutch!Restart
    <3>2. MaxRestarts \in Nat
      BY WordsAssumed DEF Dutch!WordsAssumption
    <3> HIDE DEF Rest
    <3>3. QED
      BY <3>1, <3>2
  <2>4. QED
    BY <2>1, <2>2, <2>3
<1>4. ASSUME NEW w \in Worker, Dutch!ExpireMemory(w) PROVE G
  BY <1>4 DEF Dutch!ExpireMemory
<1>5. ASSUME NEW r \in Lesson, NEW w \in Worker, NEW kind \in Dutch!Kinds, Dutch!Begin(r, w, kind) PROVE G
  BY <1>5 DEF Dutch!Begin, Dutch!Idle, Dutch!First
<1>6. ASSUME NEW a \in Dutch!Actor, Dutch!Fetch(a) PROVE G
  BY <1>6 DEF Dutch!Fetch
<1>7. ASSUME NEW a \in Dutch!Actor, Dutch!Copy(a) PROVE G
  BY <1>7 DEF Dutch!Copy, Requests
<1>8. ASSUME NEW a \in Dutch!Actor, Dutch!Count(a) PROVE G
  BY <1>8 DEF Dutch!Count
<1>9. ASSUME NEW a \in Dutch!Actor, Dutch!Insert(a) PROVE G
  BY <1>9 DEF Dutch!Insert
<1>10. ASSUME NEW a \in Dutch!Actor, Dutch!Conflict(a) PROVE G
  BY <1>10 DEF Dutch!Conflict
<1>11. ASSUME NEW a \in Dutch!Actor, Dutch!InsertError(a) PROVE G
  BY <1>11 DEF Dutch!InsertError
<1>12. ASSUME NEW a \in Dutch!Actor, Dutch!Clear(a) PROVE G
  BY <1>12 DEF Dutch!Clear
<1>13. ASSUME NEW a \in Dutch!Actor, Dutch!CountLevels(a) PROVE G
  BY <1>13 DEF Dutch!CountLevels
<1>14. ASSUME NEW a \in Dutch!Actor, Dutch!Store(a) PROVE G
  BY <1>14 DEF Dutch!Store, Requests
<1>15. ASSUME NEW a \in Dutch!Actor, Dutch!SaveEntry(a) PROVE G
  BY <1>15 DEF Dutch!SaveEntry
<1>16. ASSUME NEW a \in Dutch!Actor, Dutch!Other(a) PROVE G
  BY <1>16 DEF Dutch!Other
<1>17. ASSUME NEW a \in Dutch!Actor, Dutch!UpdateWordProgress(a) PROVE G
  BY <1>17 DEF Dutch!UpdateWordProgress, Dutch!Rollback
<1>18. ASSUME NEW a \in Dutch!Actor, Dutch!Commit(a) PROVE G
  <2>1. lesson[a].pending => a \in Lesson
    BY DEF Inserted, Dutch!Actor
  <2>2. saved' \subseteq Lesson
    BY <1>18, <2>1 DEF Dutch!Commit
  <2>3. words' \in BOOLEAN
    BY <1>18 DEF Dutch!Commit
  <2>4. inserting' \in Dutch!Actor \cup {Nobody}
    BY <1>18 DEF Dutch!Commit
  <2>5. QED
    BY <1>18, <2>2, <2>3, <2>4 DEF Dutch!Commit
<1>19. QED
  BY <1>1, <1>2, <1>3, <1>4, <1>5, <1>6, <1>7, <1>8, <1>9, <1>10, <1>11, <1>12, <1>13, <1>14, <1>15, <1>16,
     <1>17, <1>18 DEF Dutch!Next, Dutch!Step
\* A step keeps the types,
LEMMA WordTypeStep == WordsInv /\ [Dutch!Next]_wordsVars => Dutch!TypeOK'
<1>1. Dutch!TypeOK <=> lesson \in [Dutch!Actor -> Requests] /\ Rest
  BY DEF Dutch!TypeOK, Requests, Rest
<1>2. Dutch!TypeOK' <=> lesson' \in [Dutch!Actor -> Requests] /\ Rest'
  BY DEF Dutch!TypeOK, Requests, Rest
<1>3. QED
  BY <1>1, <1>2, ReqTyped, RestTyped DEF WordsInv
\* and the invariant of the words,
LEMMA WordInvStep == WordsInv /\ [Dutch!Next]_wordsVars => WordsInv'
<1> SUFFICES ASSUME WordsInv, [Dutch!Next]_wordsVars PROVE (Inserted /\ Late /\ Dutch!AcknowledgedIsKept /\ Full)'
  BY WordTypeStep DEF WordsInv
<1> DEFINE G == Inserted /\ Late /\ Dutch!AcknowledgedIsKept /\ Full
<1> USE WordsAssumed DEF Dutch!WordsAssumption, WordsInv, Dutch!TypeOK, Dutch!Actor, Dutch!Counts, Dutch!Kinds, Dutch!Closed, Dutch!On, Dutch!Go, Dutch!Visible,
                Inserted, Late, Dutch!AcknowledgedIsKept, Full
<1>1. CASE UNCHANGED wordsVars
  BY <1>1 DEF wordsVars
<1>2. CASE Dutch!Expire
  BY <1>2 DEF Dutch!Expire
<1>3. ASSUME NEW w \in Worker, Dutch!Restart(w) PROVE G'
  <2>1. lesson \in [Dutch!Actor -> Requests]
    BY DEF Requests
  <2>2. /\ words' = words /\ everFailed' = everFailed /\ levels' = levels /\ saved' = saved
        /\ inserting' = IF inserting # Nobody /\ lesson[inserting].on = w THEN Nobody ELSE inserting
        /\ gaveUp' = [gaveUp EXCEPT ![w] = FALSE] /\ levelsMemory' = [levelsMemory EXCEPT ![w] = "none"]
    BY <1>3 DEF Dutch!Restart
  <2>3. Inserted'
    BY SMTT(30), <1>3, <2>1, <2>2, RestartSets
  <2>4. Late' /\ Dutch!AcknowledgedIsKept'
    BY SMTT(30), <1>3, <2>1, <2>2, RestartSets
  <2>5. ASSUME ~everFailed
        PROVE  /\ \A o \in Worker : ~gaveUp'[o] /\ levelsMemory'[o] # "empty"
               /\ \A a \in Dutch!Actor : /\ lesson'[a].pc \in {"work", "store", "commit"} => words' \/ inserting' = a
                                         /\ lesson'[a].saw # "empty"
    <3>1. \A o \in Worker : ~gaveUp'[o] /\ levelsMemory'[o] # "empty"
      BY <2>2, <2>5
    <3>2. ASSUME NEW a \in Dutch!Actor
          PROVE  /\ lesson'[a].pc \in {"work", "store", "commit"} => words' \/ inserting' = a
                 /\ lesson'[a].saw # "empty"
      BY <1>3, <2>1, <2>2, <2>5, RestartSets
    <3>3. QED
      BY <3>1, <3>2
  <2>6. QED
    BY <2>2, <2>3, <2>4, <2>5
<1>4. ASSUME NEW w \in Worker, Dutch!ExpireMemory(w) PROVE G'
  BY <1>4 DEF Dutch!ExpireMemory
<1>5. ASSUME NEW r \in Lesson, NEW w \in Worker, NEW kind \in Dutch!Kinds, Dutch!Begin(r, w, kind) PROVE G'
  BY <1>5 DEF Dutch!Begin, Dutch!Idle, Dutch!First
<1>6. ASSUME NEW a \in Dutch!Actor, Dutch!Fetch(a) PROVE G'
  BY <1>6 DEF Dutch!Fetch
<1>7. ASSUME NEW a \in Dutch!Actor, Dutch!Copy(a) PROVE G'
  BY <1>7 DEF Dutch!Copy, Requests
<1>8. ASSUME NEW a \in Dutch!Actor, Dutch!Count(a) PROVE G'
  BY <1>8 DEF Dutch!Count
<1>9. ASSUME NEW a \in Dutch!Actor, Dutch!Insert(a) PROVE G'
  BY <1>9 DEF Dutch!Insert
<1>10. ASSUME NEW a \in Dutch!Actor, Dutch!Conflict(a) PROVE G'
  BY <1>10 DEF Dutch!Conflict
<1>11. ASSUME NEW a \in Dutch!Actor, Dutch!InsertError(a) PROVE G'
  BY <1>11 DEF Dutch!InsertError
<1>12. ASSUME NEW a \in Dutch!Actor, Dutch!Clear(a) PROVE G'
  BY <1>12 DEF Dutch!Clear
<1>13. ASSUME NEW a \in Dutch!Actor, Dutch!CountLevels(a) PROVE G'
  BY <1>13 DEF Dutch!CountLevels
<1>14. ASSUME NEW a \in Dutch!Actor, Dutch!Store(a) PROVE G'
  BY <1>14 DEF Dutch!Store
<1>15. ASSUME NEW a \in Dutch!Actor, Dutch!SaveEntry(a) PROVE G'
  BY <1>15 DEF Dutch!SaveEntry
<1>16. ASSUME NEW a \in Dutch!Actor, Dutch!Other(a) PROVE G'
  BY <1>16 DEF Dutch!Other
<1>17. ASSUME NEW a \in Dutch!Actor, Dutch!UpdateWordProgress(a) PROVE G'
  BY <1>17 DEF Dutch!UpdateWordProgress, Dutch!Rollback
<1>18. ASSUME NEW a \in Dutch!Actor, Dutch!Commit(a) PROVE G'
  BY <1>18 DEF Dutch!Commit
<1> HIDE WordsAssumed
       DEF G, Dutch!WordsAssumption, WordsInv, Dutch!TypeOK, Dutch!Actor, Dutch!Counts, Dutch!Kinds, Dutch!Closed,
           Dutch!On, Dutch!Go, Dutch!Visible, Inserted, Late, Dutch!AcknowledgedIsKept, Full
<1>19. ASSUME NEW a \in Dutch!Actor, Dutch!Step(a) PROVE G'
  BY ZenonT(40), <1>6, <1>7, <1>8, <1>9, <1>10, <1>11, <1>12, <1>13, <1>14, <1>15, <1>16, <1>17, <1>18, <1>19 DEF Dutch!Step
<1>20. CASE Dutch!Next
  BY ZenonT(40), <1>2, <1>3, <1>4, <1>5, <1>19, <1>20 DEF Dutch!Next, G
<1>21. QED
  BY <1>1, <1>20 DEF G
\* which implies what WordsAreKept says.
LEMMA WordInvSuffices == WordsInv => Dutch!AcknowledgedIsKept /\ Dutch!LevelsHaveWords
  BY DEF WordsInv, Dutch!LevelsHaveWords, Full

\* Once the list is there, what is acknowledged is kept; levels without words
\* only after a failed insert (ensure_words_seeded, build_levels_payload).
THEOREM WordsAreKeptHolds == ServicesSpec => []WordsAreKept
<1>1. ServicesInit => WordsInv
  BY WordInvInitially DEF ServicesInit
<1>2. WordsInv /\ [ServicesNext]_servicesVars => WordsInv'
  BY WordInvStep, StepOrStutter
<1>3. WordsInv => WordsAreKept
  BY WordInvSuffices DEF WordsAreKept
<1>4. QED
  BY <1>1, <1>2, <1>3, PTL DEF ServicesSpec, servicesVars

----------------------------------------------------------------------------
\* The memory, of which LearnerMemory_proofs shows all that is needed.
LEMMA MemoryNext == Memory!Next => MemP!Next
  BY DEF
     Memory!rows, Memory!pvars, Memory!svars, Memory!Key, Memory!Slot, Memory!Range, Memory!NoText,
     Memory!NoSynthesis, Memory!Recorded, Memory!Content, Memory!LocalPending, Memory!TryAcquire,
     Memory!TurnCompletes, Memory!EmitTrace, Memory!SaveFact, Memory!Appended, Memory!NextAttempt,
     Memory!FactUnlock, Memory!CommitTrace, Memory!AttemptFails, Memory!TurnEnqueue,
     Memory!TurnAcquire, Memory!ReceiveCall, Memory!Answered, Memory!GetCache,
     Memory!ReadDocuments, Memory!SetCache, Memory!CallEnqueue, Memory!CallAcquire,
     Memory!ExpireCache, Memory!ReceivePreference, Memory!SavePreference, Memory!Invalidate,
     Memory!CommitPreference, Memory!Working, Memory!ListTraces, Memory!ListDocuments,
     Memory!SetRecent, Memory!SetProfile, Memory!InvalidateSlots, Memory!CacheSlots,
     Memory!CommitSlots, Memory!SynthesisFails, Memory!Retry, Memory!Release, Memory!Pop,
     Memory!ExpireLock, Memory!TurnStep, Memory!CallStep, Memory!PrefStep, Memory!SynthStep,
     Memory!Next, MemP!rows, MemP!pvars, MemP!svars, MemP!Key, MemP!Slot, MemP!Range, MemP!NoText,
     MemP!NoSynthesis, MemP!Recorded, MemP!Content, MemP!LocalPending, MemP!TryAcquire,
     MemP!TurnCompletes, MemP!EmitTrace, MemP!SaveFact, MemP!Appended, MemP!NextAttempt,
     MemP!FactUnlock, MemP!CommitTrace, MemP!AttemptFails, MemP!TurnEnqueue, MemP!TurnAcquire,
     MemP!ReceiveCall, MemP!Answered, MemP!GetCache, MemP!ReadDocuments, MemP!SetCache,
     MemP!CallEnqueue, MemP!CallAcquire, MemP!ExpireCache, MemP!ReceivePreference,
     MemP!SavePreference, MemP!Invalidate, MemP!CommitPreference, MemP!Working, MemP!ListTraces,
     MemP!ListDocuments, MemP!SetRecent, MemP!SetProfile, MemP!InvalidateSlots, MemP!CacheSlots,
     MemP!CommitSlots, MemP!SynthesisFails, MemP!Retry, MemP!Release, MemP!Pop, MemP!ExpireLock,
     MemP!TurnStep, MemP!CallStep, MemP!PrefStep, MemP!SynthStep, MemP!Next, Memory!Actor,
     MemP!Actor

\* The memory of the services is the one of those proofs.
LEMMA MemoryInvariant ==
    /\ ServicesInit => MemP!Inv
    /\ MemP!Inv /\ [ServicesNext]_servicesVars => MemP!Inv'
<1>1. MemP!MemoryAssumption
  BY ServicesAssumption DEF Memory!MemoryAssumption, MemP!MemoryAssumption, Memory!Actor, MemP!Actor
<1>2. ServicesInit => MemP!Init
  BY DEF ServicesInit, Memory!Init, MemP!Init, Memory!Slot, MemP!Slot, Memory!Key, MemP!Key, Memory!Actor,
         MemP!Actor, Memory!NoText, MemP!NoText, Memory!NoSynthesis, MemP!NoSynthesis
<1>3. [Memory!Next]_memoryVars => [MemP!Next]_(MemP!vars)
  BY MemoryNext DEF memoryVars, MemP!vars, MemP!rows, MemP!pvars, MemP!svars
<1>4. QED
  BY <1>1, <1>2, <1>3, StepOrStutter, MemP!InvInitially, MemP!InvStep

\* The slots, in Redis and in the database, are those of one synthesis
\* (synthesize_l3, read_l3_concat).
THEOREM SlotsOfOneSynthesisHolds == ServicesSpec => []SlotsOfOneSynthesis
<1>1. MemP!Inv => SlotsOfOneSynthesis
  <2>1. MemP!Inv => MemP!SlotsOfOneSynthesis
    BY MemP!InvSuffices
  <2>2. MemP!SlotsOfOneSynthesis => Memory!SlotsOfOneSynthesis
    BY DEF MemP!SlotsOfOneSynthesis, Memory!SlotsOfOneSynthesis, MemP!Key, Memory!Key
  <2>3. QED
    BY <2>1, <2>2 DEF SlotsOfOneSynthesis
<1>2. QED
  BY <1>1, MemoryInvariant, PTL DEF ServicesSpec, servicesVars

----------------------------------------------------------------------------
\* The knowledge base.

\* A revision is known when it has been committed,
KnownRevision(r) ==
    r \in 0..stamp /\ \A j \in Query : ingest[j].pc = "counted" => ingest[j].revision # r
\* what is read for one holds all that its searches started from, and nothing
\* is committed while it is the current one.
ReadFor(r, set) ==
    /\ KnownRevision(r) /\ set \subseteq chunks
    /\ r = revision => set = chunks
    /\ \A s \in Query : search[s].pc # "new" /\ search[s].revision = r => search[s].before \subseteq set
\* Results that are kept for a revision are those of such a read.
KeptFor(r, what) ==
    \E set \in SUBSET Query : ReadFor(r, set) /\ what = Knowledge!Ranked(set)

\* The ingests that have been given a revision.
Stamped == {j \in Query : ingest[j].pc \in {"counted", "done"}}
Revisions ==
    /\ stamp <= Cardinality(Stamped)
    /\ KnownRevision(revision)
    /\ \A j \in Query : ingest[j].pc = "counted" => ingest[j].revision <= stamp
    /\ \A j, k \in Query :
         ingest[j].pc = "counted" /\ ingest[k].pc = "counted" /\ ingest[j].revision = ingest[k].revision => j = k
\* Indexes and results are those of reads for their revision.
Indexes ==
    \A w \in Worker : index[w].chunks # Nobody => ReadFor(index[w].revision, index[w].chunks)
Results ==
    /\ \A w \in Worker : \A r \in Knowledge!Revision : local[w][r] # Nobody => KeptFor(r, local[w][r])
    /\ \A r \in Knowledge!Revision : shared[r] # Nobody => KeptFor(r, shared[r])
Searches ==
    \A s \in Query :
      /\ search[s].pc # "new" =>
           /\ KnownRevision(search[s].revision) /\ search[s].before \subseteq chunks
           /\ search[s].revision = revision => search[s].before = chunks
      /\ search[s].pc \in {"index", "computed"} => ReadFor(search[s].revision, search[s].chunks)
      /\ search[s].pc = "computed" => search[s].found = Knowledge!Ranked(search[s].chunks)
      /\ search[s].pc = "done" =>
           \E set \in SUBSET search[s].after :
              search[s].before \subseteq set /\ search[s].found = Knowledge!Ranked(set)
KnowInv == Knowledge!TypeOK /\ Revisions /\ Indexes /\ Results /\ Searches

\* There are finitely many ingests, and as many revisions.
LEMMA KnowledgeCounts ==
    /\ IsFiniteSet(Query) /\ Cardinality(Query) \in Nat
    /\ Knowledge!Revision = 0..Cardinality(Query)
    /\ IsFiniteSet(Stamped) /\ Cardinality(Stamped) \in Nat /\ Cardinality(Stamped) <= Cardinality(Query)
<1>1. IsFiniteSet(Query)
  BY ContentAssumption DEF Knowledge!KnowledgeAssumption, Knowledge!IsFiniteSet, IsFiniteSet
<1>2. Knowledge!Cardinality(Query) = Cardinality(Query)
  BY DEF Knowledge!Cardinality, Cardinality, Knowledge!IsFiniteSet, IsFiniteSet
<1>3. Stamped \subseteq Query
  BY DEF Stamped
<1>4. QED
  BY <1>1, <1>2, <1>3, FS_CardinalityType, FS_Subset DEF Knowledge!Revision

\* Initially nothing has been read.
LEMMA KnowInitially == ServicesInit => KnowInv
<1> SUFFICES ASSUME Knowledge!Init PROVE KnowInv
  BY DEF ServicesInit
<1>1. 0 \in Knowledge!Revision
  BY KnowledgeCounts
<1>2. Knowledge!TypeOK
  <2>1. \A j \in Query : ingest[j].pc = "new" /\ ingest[j].on \in Worker /\ ingest[j].files \in SUBSET Query
                          /\ ingest[j].rows = {} /\ ingest[j].revision = 0
    BY DEF Knowledge!Init
  <2>2. QED
    BY <1>1 DEF Knowledge!Init, Knowledge!TypeOK, Knowledge!Results, Knowledge!NoResults
<1>3. Revisions
  <2>1. \A j \in Query : ingest[j].pc = "new"
    BY DEF Knowledge!Init
  <2>2. stamp = 0 /\ revision = 0 /\ stamp <= Cardinality(Stamped)
    BY KnowledgeCounts DEF Knowledge!Init
  <2>3. KnownRevision(revision)
    BY <2>1, <2>2 DEF KnownRevision
  <2>4. QED
    BY <2>1, <2>2, <2>3 DEF Revisions
<1>4. Indexes /\ Results
  BY DEF Knowledge!Init, Indexes, Results, Knowledge!NoResults
<1>5. Searches
  <2>1. \A s \in Query : search[s].pc = "new"
    BY DEF Knowledge!Init
  <2>2. QED
    BY <2>1 DEF Searches
<1> QED BY <1>2, <1>3, <1>4, <1>5 DEF KnowInv

\* A stamp is given to an ingest that had none.
LEMMA NextStamp ==
    ASSUME KnowInv, NEW j \in Query, Knowledge!Recompute(j)
    PROVE  /\ stamp + 1 \in Knowledge!Revision
           /\ Stamped' = Stamped \cup {j} /\ stamp' <= Cardinality(Stamped')
<1>1. Stamped' = Stamped \cup {j} /\ j \notin Stamped
  BY DEF KnowInv, Knowledge!TypeOK, Knowledge!Recompute, Stamped
<1>2. Cardinality(Stamped') = Cardinality(Stamped) + 1
  BY <1>1, KnowledgeCounts, FS_AddElement
<1>3. Cardinality(Stamped') <= Cardinality(Query)
  <2>1. Stamped' \subseteq Query
    BY <1>1 DEF Stamped
  <2>2. QED
    BY <2>1, KnowledgeCounts, FS_Subset
<1>4. stamp \in Nat /\ stamp <= Cardinality(Stamped) /\ stamp' = stamp + 1
  BY KnowledgeCounts DEF KnowInv, Revisions, Knowledge!TypeOK, Knowledge!Recompute
<1> QED BY <1>1, <1>2, <1>3, <1>4, KnowledgeCounts

\* What is ranked is among what is given.
LEMMA RankedType == \A set : Knowledge!Ranked(set) \subseteq set
  BY DEF Knowledge!Ranked, Knowledge!Best

\* The records of the searches, ingests and indexes.
Found == (SUBSET Query) \cup {Nobody}
SearchRecord ==
    [pc : {"new", "base", "index", "computed", "done"}, on : Worker, revision : Knowledge!Revision,
     chunks : SUBSET Query, found : Found, before : SUBSET Query, after : SUBSET Query]
IngestRecord ==
    [pc : {"new", "inserted", "counted", "done"}, on : Worker, files : SUBSET Query, rows : SUBSET Query,
     revision : Knowledge!Revision]
IndexRecord == [revision : Knowledge!Revision, chunks : Found]
\* The types, variable by variable,
LEMMA KnowTypes ==
    Knowledge!TypeOK <=>
      /\ chunks \in SUBSET Query /\ revision \in Knowledge!Revision /\ stamp \in Knowledge!Revision
      /\ ingest \in [Query -> IngestRecord] /\ index \in [Worker -> IndexRecord]
      /\ local \in [Worker -> Knowledge!Results] /\ shared \in Knowledge!Results
      /\ search \in [Query -> SearchRecord]
  BY DEF Knowledge!TypeOK, IngestRecord, IndexRecord, SearchRecord, Found
\* also after a step.
LEMMA KnowTypesNext ==
    Knowledge!TypeOK' <=>
      /\ chunks' \in SUBSET Query /\ revision' \in Knowledge!Revision /\ stamp' \in Knowledge!Revision
      /\ ingest' \in [Query -> IngestRecord] /\ index' \in [Worker -> IndexRecord]
      /\ local' \in [Worker -> Knowledge!Results] /\ shared' \in Knowledge!Results
      /\ search' \in [Query -> SearchRecord]
  BY DEF Knowledge!TypeOK, IngestRecord, IndexRecord, SearchRecord, Found, Knowledge!Results, Knowledge!Revision
\* Results stay results, whatever is kept for a revision.
LEMMA ResultTypes ==
    /\ Knowledge!NoResults \in Knowledge!Results
    /\ \A f \in Knowledge!Results, r \in Knowledge!Revision :
         f[r] \in Found /\ \A v \in Found : [f EXCEPT ![r] = v] \in Knowledge!Results
  BY DEF Knowledge!Results, Knowledge!NoResults, Found

\* Every step keeps the types.
LEMMA KnowTypeStep == KnowInv /\ [Knowledge!Next]_knowledgeVars => Knowledge!TypeOK'
<1> DEFINE Typed == /\ chunks \in SUBSET Query /\ revision \in Knowledge!Revision /\ stamp \in Knowledge!Revision
                    /\ ingest \in [Query -> IngestRecord] /\ index \in [Worker -> IndexRecord]
                    /\ local \in [Worker -> Knowledge!Results] /\ shared \in Knowledge!Results
                    /\ search \in [Query -> SearchRecord]
<1> SUFFICES ASSUME KnowInv, Typed, [Knowledge!Next]_knowledgeVars PROVE Typed'
  BY KnowTypes, KnowTypesNext DEF KnowInv
<1>0. 0 \in Knowledge!Revision
  BY KnowledgeCounts
<1>1. CASE UNCHANGED knowledgeVars
  BY <1>1 DEF knowledgeVars
<1>2. ASSUME NEW j \in Query, Knowledge!Insert(j) PROVE Typed'
  <2>1. ingest[j] \in IngestRecord
    OBVIOUS
  <2>2. ingest' = [ingest EXCEPT ![j] = [ingest[j] EXCEPT !.pc = "inserted", !.rows = ingest[j].files \ chunks]]
    BY <1>2, <2>1 DEF Knowledge!Insert, IngestRecord
  <2>3. [ingest[j] EXCEPT !.pc = "inserted", !.rows = ingest[j].files \ chunks] \in IngestRecord
    BY <1>2, <2>1 DEF Knowledge!Insert, IngestRecord
  <2>4. ingest' \in [Query -> IngestRecord]
    BY <2>2, <2>3
  <2>5. QED
    BY <1>2, <2>4 DEF Knowledge!Insert
<1>3. ASSUME NEW j \in Query, Knowledge!Recompute(j) PROVE Typed'
  <2>1. ingest[j] \in IngestRecord
    OBVIOUS
  <2>2. ingest' = [ingest EXCEPT ![j] = [ingest[j] EXCEPT !.pc = "counted", !.revision = stamp + 1]]
    BY <1>3, <2>1 DEF Knowledge!Recompute, IngestRecord
  <2>3. [ingest[j] EXCEPT !.pc = "counted", !.revision = stamp + 1] \in IngestRecord
    BY <1>3, <2>1, NextStamp DEF Knowledge!Recompute, IngestRecord
  <2>4. ingest' \in [Query -> IngestRecord]
    BY <2>2, <2>3
  <2>5. ingest[j].on \in Worker /\ stamp' \in Knowledge!Revision
    BY <1>3, <2>1, NextStamp DEF IngestRecord, Knowledge!Recompute
  <2>6. index' \in [Worker -> IndexRecord] /\ local' \in [Worker -> Knowledge!Results]
    BY SMTT(30), <1>3, <2>5, ResultTypes DEF Knowledge!Recompute, IndexRecord, Found
  <2>7. QED
    BY <1>3, <2>4, <2>5, <2>6 DEF Knowledge!Recompute
<1>4. ASSUME NEW j \in Query, Knowledge!InvalidateRedis(j) PROVE Typed'
  BY <1>4, ResultTypes DEF Knowledge!InvalidateRedis
<1>5. ASSUME NEW j \in Query, Knowledge!Commit(j) PROVE Typed'
  <2>1. ingest[j] \in IngestRecord
    OBVIOUS
  <2>2. ingest' = [ingest EXCEPT ![j] = [ingest[j] EXCEPT !.pc = "done"]]
    BY <1>5, <2>1 DEF Knowledge!Commit, IngestRecord
  <2>3. [ingest[j] EXCEPT !.pc = "done"] \in IngestRecord
    BY <1>5, <2>1 DEF Knowledge!Commit, IngestRecord
  <2>4. ingest' \in [Query -> IngestRecord]
    BY <2>2, <2>3
  <2>5. QED
    BY <1>5, <2>1, <2>4 DEF Knowledge!Commit, IngestRecord
<1>6. ASSUME NEW j \in Query, Knowledge!Abort(j) PROVE Typed'
  <2>1. ingest[j] \in IngestRecord
    OBVIOUS
  <2>2. ingest' = [ingest EXCEPT ![j] = [ingest[j] EXCEPT !.pc = "done", !.rows = {}]]
    BY <1>6, <2>1 DEF Knowledge!Abort, IngestRecord
  <2>3. [ingest[j] EXCEPT !.pc = "done", !.rows = {}] \in IngestRecord
    BY <1>6, <2>1 DEF Knowledge!Abort, IngestRecord
  <2>4. ingest' \in [Query -> IngestRecord]
    BY <2>2, <2>3
  <2>5. QED
    BY <1>6, <2>4 DEF Knowledge!Abort
<1>7. ASSUME NEW s \in Query, Knowledge!ReadBase(s) PROVE Typed'
  <2>1. search[s] \in SearchRecord
    OBVIOUS
  <2>2. search' = [search EXCEPT ![s] = [search[s] EXCEPT !.pc = "base", !.revision = revision, !.before = chunks]]
    BY <1>7, <2>1 DEF Knowledge!ReadBase, SearchRecord
  <2>3. [search[s] EXCEPT !.pc = "base", !.revision = revision, !.before = chunks] \in SearchRecord
    BY <1>7, <2>1 DEF Knowledge!ReadBase, SearchRecord, Found
  <2>4. search' \in [Query -> SearchRecord]
    BY <2>2, <2>3
  <2>5. QED
    BY <1>7, <2>4 DEF Knowledge!ReadBase
<1>8. ASSUME NEW s \in Query, Knowledge!LoadIndex(s) PROVE Typed'
  <2> DEFINE w == search[s].on
             r == search[s].revision
             read == IF Knowledge!IsLoaded(w, r) THEN index[w].chunks ELSE chunks
             kept2 == IF Knowledge!IsLoaded(w, r) THEN local[w] ELSE Knowledge!NoResults
             pc == IF kept2[r] = Nobody THEN "index" ELSE "done"
  <2>1. search[s] \in SearchRecord /\ w \in Worker /\ r \in Knowledge!Revision
    BY DEF SearchRecord
  <2>2. read \in SUBSET Query /\ kept2 \in Knowledge!Results /\ kept2[r] \in Found
    BY <2>1, ResultTypes DEF IndexRecord, Found, Knowledge!IsLoaded
  <2>3. /\ index' = [index EXCEPT ![w] = [revision |-> r, chunks |-> read]]
        /\ local' = [local EXCEPT ![w] = kept2]
        /\ search' = [search EXCEPT ![s] = [search[s] EXCEPT !.chunks = read, !.found = kept2[r],
                                                             !.after = chunks, !.pc = pc]]
    BY <1>8, <2>1 DEF Knowledge!LoadIndex, SearchRecord
  <2> HIDE DEF w, r, read, kept2, pc
  <2>4. pc \in {"index", "done"}
    BY DEF pc
  <2>5. [search[s] EXCEPT !.chunks = read, !.found = kept2[r], !.after = chunks, !.pc = pc] \in SearchRecord
    BY <2>1, <2>2, <2>4 DEF SearchRecord
  <2>6. [revision |-> r, chunks |-> read] \in IndexRecord
    BY <2>1, <2>2 DEF IndexRecord, Found
  <2>7. /\ search' \in [Query -> SearchRecord] /\ index' \in [Worker -> IndexRecord]
        /\ local' \in [Worker -> Knowledge!Results]
    BY <2>1, <2>2, <2>3, <2>5, <2>6
  <2>8. QED
    BY <1>8, <2>7 DEF Knowledge!LoadIndex
<1>9. ASSUME NEW s \in Query, Knowledge!UseRedis(s) PROVE Typed'
  <2>1. search[s] \in SearchRecord
    OBVIOUS
  <2>2. search' = [search EXCEPT ![s] = [search[s] EXCEPT !.pc = "done", !.found = shared[search[s].revision], !.after = chunks]]
    BY <1>9, <2>1 DEF Knowledge!UseRedis, SearchRecord
  <2>3. [search[s] EXCEPT !.pc = "done", !.found = shared[search[s].revision], !.after = chunks] \in SearchRecord
    BY <1>9, <2>1, ResultTypes DEF Knowledge!UseRedis, SearchRecord, Found
  <2>4. search' \in [Query -> SearchRecord]
    BY <2>2, <2>3
  <2>5. search[s].on \in Worker /\ search[s].revision \in Knowledge!Revision
         /\ shared[search[s].revision] \in Found
    BY <2>1, RankedType, ResultTypes DEF SearchRecord, Found
  <2>6. local' \in [Worker -> Knowledge!Results]
    <3>1. [local[search[s].on] EXCEPT ![search[s].revision] = shared[search[s].revision]] \in Knowledge!Results
      BY <2>5, ResultTypes
    <3>2. local' = [local EXCEPT ![search[s].on] =
                      [local[search[s].on] EXCEPT ![search[s].revision] = shared[search[s].revision]]]
      BY <1>9 DEF Knowledge!UseRedis, Knowledge!Remember
    <3>3. QED
      BY <3>1, <3>2
  <2>7. QED
    BY <1>9, <2>4, <2>6 DEF Knowledge!UseRedis
<1>10. ASSUME NEW s \in Query, Knowledge!Compute(s) PROVE Typed'
  <2>1. search[s] \in SearchRecord
    OBVIOUS
  <2>2. search' = [search EXCEPT ![s] = [search[s] EXCEPT !.pc = "computed", !.found = Knowledge!Ranked(search[s].chunks)]]
    BY <1>10, <2>1 DEF Knowledge!Compute, SearchRecord
  <2>3. [search[s] EXCEPT !.pc = "computed", !.found = Knowledge!Ranked(search[s].chunks)] \in SearchRecord
    BY <1>10, <2>1, RankedType DEF Knowledge!Compute, SearchRecord, Found
  <2>4. search' \in [Query -> SearchRecord]
    BY <2>2, <2>3
  <2>5. search[s].on \in Worker /\ search[s].revision \in Knowledge!Revision
         /\ Knowledge!Ranked(search[s].chunks) \in Found
    BY <2>1, RankedType, ResultTypes DEF SearchRecord, Found
  <2>6. local' \in [Worker -> Knowledge!Results]
    <3>1. [local[search[s].on] EXCEPT ![search[s].revision] = Knowledge!Ranked(search[s].chunks)] \in Knowledge!Results
      BY <2>5, ResultTypes
    <3>2. local' = [local EXCEPT ![search[s].on] =
                      [local[search[s].on] EXCEPT ![search[s].revision] = Knowledge!Ranked(search[s].chunks)]]
      BY <1>10 DEF Knowledge!Compute, Knowledge!Remember
    <3>3. QED
      BY <3>1, <3>2
  <2>7. QED
    BY <1>10, <2>4, <2>6 DEF Knowledge!Compute
<1>11. ASSUME NEW s \in Query, NEW b \in BOOLEAN, Knowledge!Store(s, b) PROVE Typed'
  <2>1. search[s] \in SearchRecord
    OBVIOUS
  <2>2. search' = [search EXCEPT ![s] = [search[s] EXCEPT !.pc = "done", !.after = chunks]]
    BY <1>11, <2>1 DEF Knowledge!Store, SearchRecord
  <2>3. [search[s] EXCEPT !.pc = "done", !.after = chunks] \in SearchRecord
    BY <1>11, <2>1 DEF Knowledge!Store, SearchRecord, Found
  <2>4. search' \in [Query -> SearchRecord]
    BY <2>2, <2>3
  <2>5. shared' \in Knowledge!Results
    BY <1>11, <2>1, ResultTypes DEF Knowledge!Store, SearchRecord
  <2>6. QED
    BY <1>11, <2>4, <2>5 DEF Knowledge!Store
<1>12. ASSUME NEW w \in Worker, Knowledge!Forget(w) PROVE Typed'
  BY <1>12, ResultTypes DEF Knowledge!Forget
<1>13. ASSUME NEW w \in Worker, Knowledge!Restart(w) PROVE Typed'
  BY <1>13, ResultTypes DEF Knowledge!Restart, IndexRecord, Found
<1> QED BY <1>1, <1>2, <1>3, <1>4, <1>5, <1>6, <1>7, <1>8, <1>9, <1>10, <1>11, <1>12, <1>13 DEF Knowledge!Next

\* A step of an ingest leaves the others alone.
LEMMA IngestMoves ==
    ASSUME KnowInv, NEW j \in Query,
           Knowledge!Insert(j) \/ Knowledge!Recompute(j) \/ Knowledge!Commit(j) \/ Knowledge!Abort(j)
    PROVE  \A k \in Query \ {j} : ingest'[k] = ingest[k]
  BY DEF KnowInv, Knowledge!TypeOK, Knowledge!Insert, Knowledge!Recompute, Knowledge!Commit, Knowledge!Abort
\* A search that moves keeps its worker, its revision and what it started from,
\* once it has them.
LEMMA SearchMoves ==
    ASSUME KnowInv, NEW s \in Query,
           \/ Knowledge!ReadBase(s) \/ Knowledge!LoadIndex(s) \/ Knowledge!UseRedis(s) \/ Knowledge!Compute(s)
           \/ \E b \in BOOLEAN : Knowledge!Store(s, b)
    PROVE  /\ \A q \in Query \ {s} : search'[q] = search[q]
           /\ search'[s].on = search[s].on /\ search'[s].pc # "new"
           /\ UNCHANGED <<chunks, revision, stamp, ingest>>
           /\ ~Knowledge!ReadBase(s) => /\ search'[s].revision = search[s].revision
                                        /\ search'[s].before = search[s].before
                                        /\ search[s].pc # "new"
<1> USE KnowTypes DEF KnowInv, SearchRecord
<1>1. CASE Knowledge!ReadBase(s)
  BY <1>1 DEF Knowledge!ReadBase
<1>2. CASE Knowledge!LoadIndex(s)
  BY ZenonT(40), <1>2 DEF Knowledge!LoadIndex
<1>3. CASE Knowledge!UseRedis(s)
  BY <1>3 DEF Knowledge!UseRedis
<1>4. CASE Knowledge!Compute(s)
  BY <1>4 DEF Knowledge!Compute
<1>5. ASSUME NEW b \in BOOLEAN, Knowledge!Store(s, b) PROVE
           /\ \A q \in Query \ {s} : search'[q] = search[q]
           /\ search'[s].on = search[s].on /\ search'[s].pc # "new"
           /\ UNCHANGED <<chunks, revision, stamp, ingest>>
           /\ search'[s].revision = search[s].revision /\ search'[s].before = search[s].before
           /\ search[s].pc # "new"
  BY <1>5 DEF Knowledge!Store
<1> QED BY <1>1, <1>2, <1>3, <1>4, <1>5


\* A revision that is known stays known, and no ingest gets it again;
LEMMA RevisionsStep == KnowInv /\ [Knowledge!Next]_knowledgeVars => Revisions' /\ \A r : KnownRevision(r) => KnownRevision(r)'
<1> DEFINE Goal == Revisions' /\ \A r : KnownRevision(r) => KnownRevision(r)'
<1> SUFFICES ASSUME KnowInv, [Knowledge!Next]_knowledgeVars PROVE Goal
  OBVIOUS
<1>0. /\ Revisions /\ stamp \in Nat /\ revision \in Nat
      /\ \A k \in Query : ingest[k].revision \in Nat /\ ingest[k].pc \in {"new", "inserted", "counted", "done"}
  BY KnowledgeCounts, KnowTypes DEF KnowInv, IngestRecord
<1>1. CASE UNCHANGED <<stamp, revision, ingest>>
  BY <1>0, <1>1 DEF Revisions, KnownRevision, Stamped
<1>2. ASSUME NEW j \in Query, Knowledge!Insert(j) \/ Knowledge!Abort(j) PROVE Goal
  <2>1. /\ UNCHANGED <<stamp, revision>> /\ ingest[j].pc \in {"new", "inserted", "counted"}
        /\ ingest'[j].pc \in {"inserted", "done"} /\ (ingest[j].pc # "new" => ingest'[j].pc = "done")
        /\ \A k \in Query \ {j} : ingest'[k] = ingest[k]
    BY <1>2, IngestMoves, KnowTypes DEF KnowInv, Knowledge!Insert, Knowledge!Abort, Knowledge!Running, IngestRecord
  <2>2. \A k \in Query : ingest'[k].pc = "counted" => k # j /\ ingest'[k] = ingest[k]
    BY <2>1
  <2>3. stamp' <= Cardinality(Stamped')
    <3>1. Stamped \subseteq Stamped' /\ Stamped' \subseteq Query
      BY <2>1 DEF Stamped
    <3>2. IsFiniteSet(Stamped') /\ Cardinality(Stamped) <= Cardinality(Stamped') /\ Cardinality(Stamped') \in Nat
      BY <3>1, KnowledgeCounts, FS_Subset, FS_CardinalityType
    <3>3. QED
      BY <1>0, <2>1, <3>2, KnowledgeCounts DEF Revisions
  <2>4. \A r : KnownRevision(r) => KnownRevision(r)'
    BY <2>1, <2>2 DEF KnownRevision
  <2>5. QED
    BY <1>0, <2>1, <2>2, <2>3, <2>4 DEF Revisions
<1>3. ASSUME NEW j \in Query, Knowledge!Recompute(j) PROVE Goal
  <2>1. /\ stamp' = stamp + 1 /\ revision' = revision
        /\ ingest'[j].pc = "counted" /\ ingest'[j].revision = stamp + 1
        /\ \A k \in Query \ {j} : ingest'[k] = ingest[k]
    <3>1. ingest \in [Query -> IngestRecord]
      BY KnowTypes DEF KnowInv
    <3>2. ingest[j] \in IngestRecord
      BY <3>1
    <3>3. ingest' = [ingest EXCEPT ![j] = [ingest[j] EXCEPT !.pc = "counted", !.revision = stamp + 1]]
      BY <1>3, <3>1, <3>2 DEF Knowledge!Recompute, IngestRecord
    <3>4. stamp' = stamp + 1 /\ revision' = revision
      BY <1>3 DEF Knowledge!Recompute
    <3>5. QED
      BY <3>1, <3>2, <3>3, <3>4 DEF IngestRecord
  <2>2. stamp' <= Cardinality(Stamped')
    BY <1>3, NextStamp
  <2>3. \A r : KnownRevision(r) => KnownRevision(r)'
    BY <1>0, <2>1 DEF KnownRevision
  <2>4. \A k \in Query : ingest'[k].pc = "counted" => ingest'[k].revision <= stamp'
    BY <1>0, <2>1 DEF Revisions
  <2>5. \A k, l \in Query :
          ingest'[k].pc = "counted" /\ ingest'[l].pc = "counted" /\ ingest'[k].revision = ingest'[l].revision => k = l
    BY <1>0, <2>1 DEF Revisions
  <2>6. QED
    BY <1>0, <2>1, <2>2, <2>3, <2>4, <2>5 DEF Revisions
<1>4. ASSUME NEW j \in Query, Knowledge!Commit(j) PROVE Goal
  <2>1. /\ stamp' = stamp /\ revision' = ingest[j].revision
        /\ ingest[j].pc = "counted" /\ ingest'[j].pc = "done"
        /\ \A k \in Query \ {j} : ingest'[k] = ingest[k]
    BY <1>4, IngestMoves, KnowTypes DEF KnowInv, Knowledge!Commit, IngestRecord
  <2>2. Stamped' = Stamped
    BY <2>1 DEF Stamped
  <2>3. \A r : KnownRevision(r) => KnownRevision(r)'
    BY <2>1 DEF KnownRevision
  <2>4. KnownRevision(revision)'
    BY <1>0, <2>1 DEF KnownRevision, Revisions
  <2>5. QED
    BY <1>0, <2>1, <2>2, <2>3, <2>4 DEF Revisions
<1>5. ASSUME NEW s \in Query,
             \/ Knowledge!ReadBase(s) \/ Knowledge!LoadIndex(s) \/ Knowledge!UseRedis(s) \/ Knowledge!Compute(s)
             \/ \E b \in BOOLEAN : Knowledge!Store(s, b)
      PROVE  UNCHANGED <<stamp, revision, ingest>>
  BY <1>5, SearchMoves
<1>6. ASSUME NEW w \in Worker, Knowledge!Forget(w) \/ Knowledge!Restart(w) PROVE UNCHANGED <<stamp, revision, ingest>>
  BY <1>6 DEF Knowledge!Forget, Knowledge!Restart
<1>7. ASSUME NEW j \in Query, Knowledge!InvalidateRedis(j) PROVE UNCHANGED <<stamp, revision, ingest>>
  BY <1>7 DEF Knowledge!InvalidateRedis
<1>8. CASE UNCHANGED knowledgeVars
  BY <1>1, <1>8 DEF knowledgeVars
<1> QED BY <1>1, <1>2, <1>3, <1>4, <1>5, <1>6, <1>7, <1>8 DEF Knowledge!Next

\* and what was read for it stays a read for it.
LEMMA ReadKept ==
    ASSUME KnowInv, [Knowledge!Next]_knowledgeVars, NEW r, NEW set, ReadFor(r, set)
    PROVE  ReadFor(r, set)'
<1>1. KnownRevision(r) /\ KnownRevision(r)'
  BY RevisionsStep DEF ReadFor
<1>2. CASE UNCHANGED <<chunks, revision, search>>
  BY <1>1, <1>2 DEF ReadFor
<1>3. ASSUME NEW j \in Query, Knowledge!Commit(j) PROVE ReadFor(r, set)'
  <2>1. chunks \subseteq chunks' /\ search' = search /\ revision' = ingest[j].revision /\ ingest[j].pc = "counted"
    BY <1>3 DEF Knowledge!Commit
  <2>2. r # revision'
    BY <1>1, <2>1 DEF KnownRevision
  <2>3. QED
    BY <1>1, <2>1, <2>2 DEF ReadFor
<1>4. ASSUME NEW s \in Query, Knowledge!ReadBase(s) PROVE ReadFor(r, set)'
  <2>1. search'[s].revision = revision /\ search'[s].before = chunks
    BY <1>4, KnowTypes DEF KnowInv, SearchRecord, Knowledge!ReadBase
  <2>2. QED
    BY <1>1, <1>4, <2>1, SearchMoves DEF ReadFor
<1>5. ASSUME NEW s \in Query, ~Knowledge!ReadBase(s),
             \/ Knowledge!LoadIndex(s) \/ Knowledge!UseRedis(s) \/ Knowledge!Compute(s)
             \/ \E b \in BOOLEAN : Knowledge!Store(s, b)
      PROVE  ReadFor(r, set)'
  <2>1. /\ \A q \in Query \ {s} : search'[q] = search[q]
        /\ UNCHANGED <<chunks, revision>>
        /\ search'[s].revision = search[s].revision /\ search'[s].before = search[s].before /\ search[s].pc # "new"
    BY <1>5, SearchMoves
  <2>2. QED
    BY <1>1, <2>1 DEF ReadFor
<1>6. ASSUME NEW j \in Query,
             Knowledge!Insert(j) \/ Knowledge!Recompute(j) \/ Knowledge!Abort(j) \/ Knowledge!InvalidateRedis(j)
      PROVE  UNCHANGED <<chunks, revision, search>>
  BY <1>6 DEF Knowledge!Insert, Knowledge!Recompute, Knowledge!Abort, Knowledge!InvalidateRedis
<1>7. ASSUME NEW w \in Worker, Knowledge!Forget(w) \/ Knowledge!Restart(w) PROVE UNCHANGED <<chunks, revision, search>>
  BY <1>7 DEF Knowledge!Forget, Knowledge!Restart
<1>8. CASE UNCHANGED knowledgeVars
  BY <1>2, <1>8 DEF knowledgeVars
<1> QED BY <1>2, <1>3, <1>4, <1>5, <1>6, <1>7, <1>8 DEF Knowledge!Next



\* Results that are kept stay those of a read.
LEMMA KeptKept ==
    ASSUME KnowInv, [Knowledge!Next]_knowledgeVars, NEW r, NEW what, KeptFor(r, what)
    PROVE  KeptFor(r, what)'
<1>1. PICK set \in SUBSET Query : ReadFor(r, set) /\ what = Knowledge!Ranked(set)
  BY DEF KeptFor
<1>2. ReadFor(r, set)'
  BY <1>1, ReadKept
<1>3. what = Knowledge!Ranked(set)'
  BY <1>1 DEF Knowledge!Ranked, Knowledge!Best, Knowledge!Cardinality, Knowledge!IsFiniteSet
<1> QED BY <1>1, <1>2, <1>3 DEF KeptFor

\* What a search finds or reads in LoadIndex.
LEMMA Loading ==
    ASSUME KnowInv, NEW s \in Query, Knowledge!LoadIndex(s)
    PROVE  /\ search[s].pc = "base" /\ search[s].on \in Worker /\ search[s].revision \in Knowledge!Revision
           /\ \E read \in SUBSET Query, kept2 \in {local[search[s].on], Knowledge!NoResults} :
                /\ ReadFor(search[s].revision, read)
                /\ index' = [index EXCEPT ![search[s].on] = [revision |-> search[s].revision, chunks |-> read]]
                /\ local' = [local EXCEPT ![search[s].on] = kept2]
                /\ search'[s].chunks = read /\ search'[s].after = chunks
                /\ search'[s].found = kept2[search[s].revision]
                /\ search'[s].pc = IF kept2[search[s].revision] = Nobody THEN "index" ELSE "done"
           /\ shared' = shared
<1> DEFINE w == search[s].on
           r == search[s].revision
           read == IF Knowledge!IsLoaded(w, r) THEN index[w].chunks ELSE chunks
           kept2 == IF Knowledge!IsLoaded(w, r) THEN local[w] ELSE Knowledge!NoResults
<1>1. search \in [Query -> SearchRecord] /\ search[s] \in SearchRecord /\ chunks \in SUBSET Query
      /\ index \in [Worker -> IndexRecord]
  BY KnowTypes DEF KnowInv
<1>2. w \in Worker /\ r \in Knowledge!Revision /\ search[s].pc = "base" /\ shared' = shared
  BY <1>1 DEF SearchRecord, Knowledge!LoadIndex
<1>3. read \in SUBSET Query
  BY <1>1, <1>2 DEF IndexRecord, Found, Knowledge!IsLoaded
<1>4. /\ index' = [index EXCEPT ![w] = [revision |-> r, chunks |-> read]]
      /\ local' = [local EXCEPT ![w] = kept2]
      /\ search'[s].chunks = read /\ search'[s].after = chunks
      /\ search'[s].found = kept2[r] /\ search'[s].pc = IF kept2[r] = Nobody THEN "index" ELSE "done"
  BY <1>1 DEF Knowledge!LoadIndex, SearchRecord
<1>5. ReadFor(r, read)
  <2>1. CASE Knowledge!IsLoaded(w, r)
    BY <1>2, <2>1 DEF KnowInv, Indexes, Knowledge!IsLoaded
  <2>2. CASE ~Knowledge!IsLoaded(w, r)
    BY <1>2, <2>2 DEF KnowInv, Searches, ReadFor
  <2>3. QED
    BY <2>1, <2>2
<1>6. kept2 \in {local[w], Knowledge!NoResults}
  OBVIOUS
<1> HIDE DEF read, kept2
<1> QED BY <1>2, <1>3, <1>4, <1>5, <1>6

\* Indexes and results are those of reads,
LEMMA IndexesStep == KnowInv /\ [Knowledge!Next]_knowledgeVars => Indexes' /\ Results'
<1> SUFFICES ASSUME KnowInv, [Knowledge!Next]_knowledgeVars PROVE Indexes' /\ Results'
  OBVIOUS
<1>0. /\ index \in [Worker -> IndexRecord] /\ local \in [Worker -> Knowledge!Results]
      /\ shared \in Knowledge!Results /\ search \in [Query -> SearchRecord] /\ ingest \in [Query -> IngestRecord]
      /\ Indexes /\ Results
  BY KnowTypes DEF KnowInv
<1>a. \A r, set : ReadFor(r, set) => ReadFor(r, set)'
  BY ReadKept
<1>b. \A r, what : KeptFor(r, what) => KeptFor(r, what)'
  BY KeptKept
<1>c. ASSUME \A w \in Worker : \/ index'[w] = index[w] \/ index'[w].chunks = Nobody
                               \/ \E r, set : /\ index'[w].revision = r /\ index'[w].chunks = set
                                              /\ ReadFor(r, set)'
      PROVE  Indexes'
  <2> SUFFICES ASSUME NEW w \in Worker, index'[w].chunks # Nobody
               PROVE  \E r, set : index'[w].revision = r /\ index'[w].chunks = set /\ ReadFor(r, set)'
    BY DEF Indexes
  <2>1. CASE index'[w] = index[w]
    <3>1. \E r, set : index[w].revision = r /\ index[w].chunks = set /\ ReadFor(r, set)
      BY <1>0, <2>1 DEF Indexes
    <3>2. QED
      BY <1>a, <2>1, <3>1
  <2>2. QED
    BY <1>c, <2>1
<1>d. ASSUME \A w \in Worker, r \in Knowledge!Revision :
               \/ local'[w][r] = local[w][r] \/ local'[w][r] = Nobody
               \/ \E what : local'[w][r] = what /\ KeptFor(r, what)',
             \A r \in Knowledge!Revision :
               \/ shared'[r] = shared[r] \/ shared'[r] = Nobody
               \/ \E what : shared'[r] = what /\ KeptFor(r, what)'
      PROVE  Results'
  <2>0. Knowledge!Revision' = Knowledge!Revision
    BY DEF Knowledge!Revision, Knowledge!Cardinality, Knowledge!IsFiniteSet
  <2>1. ASSUME NEW w \in Worker, NEW r \in Knowledge!Revision, local'[w][r] # Nobody
        PROVE  \E what : local'[w][r] = what /\ KeptFor(r, what)'
    <3>1. CASE local'[w][r] = local[w][r]
      <4>1. \E what : local[w][r] = what /\ KeptFor(r, what)
        BY <1>0, <2>1, <3>1 DEF Results
      <4>2. QED
        BY <1>b, <3>1, <4>1
    <3>2. QED
      BY <1>d, <2>1, <3>1
  <2>2. ASSUME NEW r \in Knowledge!Revision, shared'[r] # Nobody
        PROVE  \E what : shared'[r] = what /\ KeptFor(r, what)'
    <3>1. CASE shared'[r] = shared[r]
      <4>1. \E what : shared[r] = what /\ KeptFor(r, what)
        BY <1>0, <2>2, <3>1 DEF Results
      <4>2. QED
        BY <1>b, <3>1, <4>1
    <3>2. QED
      BY <1>d, <2>2, <3>1
  <2>3. QED
    BY <2>0, <2>1, <2>2 DEF Results
<1>e. CASE UNCHANGED <<index, local, shared>>
  BY <1>c, <1>d, <1>e
<1>f. /\ \A r \in Knowledge!Revision : Knowledge!NoResults[r] = Nobody
      /\ \A s \in Query : search[s].on \in Worker /\ search[s].revision \in Knowledge!Revision
      /\ \A j \in Query : ingest[j].on \in Worker
  BY <1>0 DEF Knowledge!NoResults, SearchRecord, IngestRecord
<1>g. \A w \in Worker : DOMAIN local[w] = Knowledge!Revision /\ DOMAIN shared = Knowledge!Revision
  BY <1>0 DEF Knowledge!Results
<1>1. CASE UNCHANGED knowledgeVars
  BY <1>e, <1>1 DEF knowledgeVars
<1>2. ASSUME NEW j \in Query, Knowledge!Insert(j) \/ Knowledge!Commit(j) \/ Knowledge!Abort(j)
      PROVE  UNCHANGED <<index, local, shared>>
  BY <1>2 DEF Knowledge!Insert, Knowledge!Commit, Knowledge!Abort
<1>3. ASSUME NEW j \in Query, Knowledge!Recompute(j) PROVE Indexes' /\ Results'
  <2>1. \A w \in Worker : index'[w] = index[w] \/ index'[w].chunks = Nobody
    BY <1>0, <1>3 DEF Knowledge!Recompute, IndexRecord
  <2>2. shared' = shared /\ \A w \in Worker : local'[w] = local[w] \/ local'[w] = Knowledge!NoResults
    BY <1>0, <1>3 DEF Knowledge!Recompute
  <2>3. QED
    BY <1>c, <1>d, <1>f, <2>1, <2>2
<1>4. ASSUME NEW j \in Query, Knowledge!InvalidateRedis(j) PROVE Indexes' /\ Results'
  <2>1. UNCHANGED <<index, local>> /\ shared' = Knowledge!NoResults
    BY <1>4 DEF Knowledge!InvalidateRedis
  <2>2. QED
    BY <1>c, <1>d, <1>f, <2>1
<1>5. ASSUME NEW s \in Query, Knowledge!ReadBase(s) PROVE UNCHANGED <<index, local, shared>>
  BY <1>5 DEF Knowledge!ReadBase
<1>6. ASSUME NEW s \in Query, Knowledge!LoadIndex(s) PROVE Indexes' /\ Results'
  <2>1. PICK read \in SUBSET Query, kept2 \in {local[search[s].on], Knowledge!NoResults} :
          /\ ReadFor(search[s].revision, read) /\ shared' = shared
          /\ index' = [index EXCEPT ![search[s].on] = [revision |-> search[s].revision, chunks |-> read]]
          /\ local' = [local EXCEPT ![search[s].on] = kept2]
    BY <1>6, Loading
  <2>2. PICK r : r = search[s].revision
    OBVIOUS
  <2>3. ReadFor(r, read)'
    BY <1>a, <2>1, <2>2
  <2>4. \A w \in Worker : index'[w] = index[w] \/ (index'[w].revision = r /\ index'[w].chunks = read)
    BY <1>0, <2>1, <2>2
  <2>5. shared' = shared /\ \A w \in Worker : local'[w] = local[w] \/ local'[w] = Knowledge!NoResults
    BY <1>0, <2>1
  <2>6. QED
    BY <1>c, <1>d, <1>f, <2>3, <2>4, <2>5
<1>7. ASSUME NEW s \in Query, Knowledge!UseRedis(s) PROVE Indexes' /\ Results'
  <2>1. PICK r, what : r = search[s].revision /\ what = shared[r]
    OBVIOUS
  <2>2. KeptFor(r, what)'
    BY <1>0, <1>b, <1>f, <1>7, <2>1 DEF Knowledge!UseRedis, Results
  <2>3. \A w \in Worker, q \in Knowledge!Revision : local'[w][q] = local[w][q] \/ (q = r /\ local'[w][q] = what)
    BY <1>0, <1>7, <1>f, <1>g, <2>1 DEF Knowledge!UseRedis, Knowledge!Remember
  <2>4. UNCHANGED <<index, shared>>
    BY <1>7 DEF Knowledge!UseRedis
  <2>5. QED
    BY <1>c, <1>d, <2>2, <2>3, <2>4
<1>8. ASSUME NEW s \in Query, Knowledge!Compute(s) PROVE Indexes' /\ Results'
  <2>1. PICK r, set, what : r = search[s].revision /\ set = search[s].chunks /\ what = Knowledge!Ranked(set)
    OBVIOUS
  <2>2. ReadFor(r, set) /\ set \in SUBSET Query
    BY <1>0, <1>8, <2>1 DEF Knowledge!Compute, KnowInv, Searches, SearchRecord
  <2>3. KeptFor(r, what)'
    BY <1>b, <2>1, <2>2 DEF KeptFor
  <2>4. \A w \in Worker, q \in Knowledge!Revision : local'[w][q] = local[w][q] \/ (q = r /\ local'[w][q] = what)
    BY <1>0, <1>8, <1>f, <1>g, <2>1 DEF Knowledge!Compute, Knowledge!Remember
  <2>5. UNCHANGED <<index, shared>>
    BY <1>8 DEF Knowledge!Compute
  <2>6. QED
    BY <1>c, <1>d, <2>3, <2>4, <2>5
<1>9. ASSUME NEW s \in Query, NEW b \in BOOLEAN, Knowledge!Store(s, b) PROVE Indexes' /\ Results'
  <2>1. PICK r, set, what : r = search[s].revision /\ set = search[s].chunks /\ what = search[s].found
    OBVIOUS
  <2>2. ReadFor(r, set) /\ set \in SUBSET Query /\ what = Knowledge!Ranked(set)
    BY <1>0, <1>9, <2>1 DEF Knowledge!Store, KnowInv, Searches, SearchRecord
  <2>3. KeptFor(r, what)'
    BY SMTT(30), <1>b, <2>1, <2>2 DEF KeptFor
  <2>4. \A q \in Knowledge!Revision : shared'[q] = shared[q] \/ (q = r /\ shared'[q] = what)
    BY <1>0, <1>9, <1>f, <1>g, <2>1 DEF Knowledge!Store, Knowledge!Results
  <2>5. UNCHANGED <<index, local>>
    BY <1>9 DEF Knowledge!Store
  <2>6. QED
    BY <1>c, <1>d, <2>3, <2>4, <2>5
<1>10. ASSUME NEW v \in Worker, Knowledge!Forget(v) \/ Knowledge!Restart(v) PROVE Indexes' /\ Results'
  <2>1. \A w \in Worker : index'[w] = index[w] \/ index'[w].chunks = Nobody
    BY <1>0, <1>10 DEF Knowledge!Forget, Knowledge!Restart, IndexRecord
  <2>2. shared' = shared /\ \A w \in Worker : local'[w] = local[w] \/ local'[w] = Knowledge!NoResults
    BY <1>0, <1>10 DEF Knowledge!Forget, Knowledge!Restart
  <2>3. QED
    BY <1>c, <1>d, <1>f, <2>1, <2>2
<1> QED BY <1>1, <1>2, <1>3, <1>4, <1>5, <1>6, <1>7, <1>8, <1>9, <1>10, <1>e DEF Knowledge!Next

\* and a search finds what was there for it.
LEMMA SearchesStep == KnowInv /\ [Knowledge!Next]_knowledgeVars => Searches'
<1> SUFFICES ASSUME KnowInv, [Knowledge!Next]_knowledgeVars PROVE Searches'
  OBVIOUS
<1>0. search \in [Query -> SearchRecord] /\ Searches /\ Results /\ chunks \in SUBSET Query
  BY KnowTypes DEF KnowInv
<1>a. \A r, set : ReadFor(r, set) => ReadFor(r, set)'
  BY ReadKept
<1>b. \A set : (Knowledge!Ranked(set))' = Knowledge!Ranked(set)
  BY DEF Knowledge!Ranked, Knowledge!Best, Knowledge!Cardinality, Knowledge!IsFiniteSet
<1>c. \A r : KnownRevision(r) => KnownRevision(r)'
  BY RevisionsStep
\* A search that does not move keeps all that is said of it, whatever is committed.
<1>d. ASSUME NEW q \in Query, search'[q] = search[q],
             \/ UNCHANGED <<chunks, revision>>
             \/ \E j \in Query : Knowledge!Commit(j)
      PROVE  /\ search'[q].pc # "new" =>
                  /\ \E r : search'[q].revision = r /\ KnownRevision(r)'
                  /\ search'[q].before \subseteq chunks'
                  /\ search'[q].revision = revision' => search'[q].before = chunks'
             /\ search'[q].pc \in {"index", "computed"} =>
                  \E r, set : search'[q].revision = r /\ search'[q].chunks = set /\ ReadFor(r, set)'
             /\ search'[q].pc = "computed" => search'[q].found = Knowledge!Ranked(search'[q].chunks)
             /\ search'[q].pc = "done" =>
                  \E set \in SUBSET search'[q].after :
                     search'[q].before \subseteq set /\ search'[q].found = Knowledge!Ranked(set)
  <2>1. PICK r, set : r = search[q].revision /\ set = search[q].chunks
    OBVIOUS
  <2>2. search[q].pc # "new" => KnownRevision(r) /\ search[q].before \subseteq chunks
                                  /\ (r = revision => search[q].before = chunks)
    BY <1>0, <2>1 DEF Searches
  <2>3. search[q].pc # "new" => search[q].before \subseteq chunks' /\ (r = revision' => search[q].before = chunks')
    <3>1. CASE UNCHANGED <<chunks, revision>>
      BY <2>2, <3>1
    <3>2. ASSUME NEW j \in Query, Knowledge!Commit(j)
          PROVE  chunks \subseteq chunks' /\ (KnownRevision(r) => r # revision')
      BY <3>2 DEF Knowledge!Commit, KnownRevision
    <3>3. QED
      BY <1>d, <2>2, <3>1, <3>2
  <2>4. search[q].pc \in {"index", "computed"} => ReadFor(r, set)
    BY <1>0, <2>1 DEF Searches
  <2>5. /\ search[q].pc = "computed" => search[q].found = Knowledge!Ranked(search[q].chunks)
        /\ search[q].pc = "done" => \E x \in SUBSET search[q].after :
                                       search[q].before \subseteq x /\ search[q].found = Knowledge!Ranked(x)
    BY <1>0 DEF Searches
  <2>6. QED
    BY <1>a, <1>c, <1>d, <2>1, <2>2, <2>3, <2>4, <2>5
<1>e. ASSUME \A q \in Query :
             /\ search'[q].pc # "new" =>
                  /\ \E r : search'[q].revision = r /\ KnownRevision(r)'
                  /\ search'[q].before \subseteq chunks'
                  /\ search'[q].revision = revision' => search'[q].before = chunks'
             /\ search'[q].pc \in {"index", "computed"} =>
                  \E r, set : search'[q].revision = r /\ search'[q].chunks = set /\ ReadFor(r, set)'
             /\ search'[q].pc = "computed" => search'[q].found = Knowledge!Ranked(search'[q].chunks)
             /\ search'[q].pc = "done" =>
                  \E set \in SUBSET search'[q].after :
                     search'[q].before \subseteq set /\ search'[q].found = Knowledge!Ranked(set)
      PROVE  Searches'
  <2>1. \A q \in Query : search'[q].pc # "new" => KnownRevision(search[q].revision)'
    BY <1>e
  <2>2. \A q \in Query : search'[q].pc \in {"index", "computed"} => ReadFor(search[q].revision, search[q].chunks)'
    BY <1>e
  <2>3. \A q \in Query : search'[q].pc = "computed" => search'[q].found = (Knowledge!Ranked(search[q].chunks))'
    BY <1>b, <1>e DEF Knowledge!Ranked, Knowledge!Best, Knowledge!Cardinality, Knowledge!IsFiniteSet
  <2>4. \A q \in Query : search'[q].pc = "done" =>
                           \E set \in SUBSET search'[q].after :
                              search'[q].before \subseteq set /\ search'[q].found = (Knowledge!Ranked(set))'
    BY <1>b, <1>e
  <2>5. QED
    BY <1>e, <2>1, <2>2, <2>3, <2>4 DEF Searches
<1>1. CASE UNCHANGED <<search, chunks, revision>>
  BY <1>d, <1>e, <1>1
<1>2. ASSUME NEW j \in Query, Knowledge!Commit(j) PROVE Searches'
  <2>1. search' = search
    BY <1>2 DEF Knowledge!Commit
  <2>2. QED
    BY <1>2, <1>d, <1>e, <2>1
\* A search that moves finds, or has found, what was there between.
<1>3. ASSUME NEW s \in Query,
             \/ Knowledge!ReadBase(s) \/ Knowledge!LoadIndex(s) \/ Knowledge!UseRedis(s) \/ Knowledge!Compute(s)
             \/ \E b \in BOOLEAN : Knowledge!Store(s, b),
             \E r, set : search'[s].revision = r /\ KnownRevision(r)
                           /\ (search'[s].pc \in {"index", "computed"} => search'[s].chunks = set /\ ReadFor(r, set)),
             search'[s].before \subseteq chunks,
             search'[s].revision = revision => search'[s].before = chunks,
             search'[s].pc = "computed" => search'[s].found = Knowledge!Ranked(search'[s].chunks),
             search'[s].pc = "done" =>
                  \E set \in SUBSET search'[s].after :
                     search'[s].before \subseteq set /\ search'[s].found = Knowledge!Ranked(set)
      PROVE  Searches'
  <2>1. UNCHANGED <<chunks, revision>> /\ \A q \in Query \ {s} : search'[q] = search[q]
    BY <1>3, SearchMoves
  <2>2. \E r, set : search'[s].revision = r /\ KnownRevision(r)'
                      /\ (search'[s].pc \in {"index", "computed"} => search'[s].chunks = set /\ ReadFor(r, set)')
    BY <1>3, <1>a, <1>c
  <2>3. QED
    BY <1>3, <1>d, <1>e, <2>1, <2>2
<1>4. ASSUME NEW s \in Query PROVE search[s] \in SearchRecord
  BY <1>0
<1>5. ASSUME NEW s \in Query, Knowledge!ReadBase(s) PROVE Searches'
  <2>1. /\ search'[s].pc = "base" /\ search'[s].revision = revision /\ search'[s].before = chunks
    BY <1>0, <1>4, <1>5 DEF Knowledge!ReadBase, SearchRecord
  <2>2. KnownRevision(revision)
    BY DEF KnowInv, Revisions
  <2>3. QED
    BY <1>3, <1>5, <2>1, <2>2
\* What is said of a search that has begun.
<1>6. ASSUME NEW s \in Query, search[s].pc # "new"
      PROVE  /\ KnownRevision(search[s].revision) /\ search[s].before \subseteq chunks
             /\ search[s].revision = revision => search[s].before = chunks
             /\ search[s].pc \in {"index", "computed"} => ReadFor(search[s].revision, search[s].chunks)
             /\ search[s].pc = "computed" => search[s].found = Knowledge!Ranked(search[s].chunks)
             /\ \A set : ReadFor(search[s].revision, set) => search[s].before \subseteq set /\ set \subseteq chunks
  BY <1>0, <1>6 DEF Searches, ReadFor
<1>7. ASSUME NEW s \in Query, Knowledge!LoadIndex(s) PROVE Searches'
  <2>1. PICK read \in SUBSET Query, kept2 \in {local[search[s].on], Knowledge!NoResults} :
          /\ ReadFor(search[s].revision, read)
          /\ search'[s].chunks = read /\ search'[s].after = chunks
          /\ search'[s].found = kept2[search[s].revision]
          /\ search'[s].pc = IF kept2[search[s].revision] = Nobody THEN "index" ELSE "done"
    BY <1>7, Loading
  <2>2. /\ search'[s].revision = search[s].revision /\ search'[s].before = search[s].before /\ search[s].pc # "new"
        /\ search[s].on \in Worker /\ search[s].revision \in Knowledge!Revision
    BY <1>4, <1>7, SearchMoves DEF Knowledge!LoadIndex, Knowledge!ReadBase, SearchRecord
  <2>3. CASE kept2[search[s].revision] = Nobody
    BY <1>3, <1>6, <1>7, <2>1, <2>2, <2>3
  <2>4. CASE kept2[search[s].revision] # Nobody
    <3>1. kept2 = local[search[s].on]
      BY <2>1, <2>2, <2>4 DEF Knowledge!NoResults
    <3>2. KeptFor(search[s].revision, kept2[search[s].revision])
      BY <1>0, <2>2, <2>4, <3>1 DEF Results
    <3>3. PICK set \in SUBSET Query : ReadFor(search[s].revision, set) /\ search'[s].found = Knowledge!Ranked(set)
      BY <2>1, <3>2 DEF KeptFor
    <3>4. search[s].before \subseteq set /\ set \subseteq chunks
      BY <1>6, <2>2, <3>3
    <3>5. search'[s].pc = "done"
      BY <2>1, <2>4
    <3>6. QED
      BY <1>3, <1>6, <1>7, <2>1, <2>2, <3>3, <3>4, <3>5
  <2>5. QED
    BY <2>3, <2>4
<1>8. ASSUME NEW s \in Query, Knowledge!UseRedis(s) PROVE Searches'
  <2>1. /\ search'[s].revision = search[s].revision /\ search'[s].before = search[s].before /\ search[s].pc # "new"
        /\ search'[s].pc = "done" /\ search'[s].after = chunks /\ search'[s].found = shared[search[s].revision]
        /\ search[s].revision \in Knowledge!Revision /\ shared[search[s].revision] # Nobody
    BY <1>0, <1>4, <1>8 DEF Knowledge!UseRedis, SearchRecord
  <2>2. PICK set \in SUBSET Query : ReadFor(search[s].revision, set) /\ search'[s].found = Knowledge!Ranked(set)
    BY <1>0, <2>1 DEF KeptFor, Results
  <2>3. search[s].before \subseteq set /\ set \subseteq chunks
    BY <1>6, <2>1, <2>2
  <2>4. QED
    BY <1>3, <1>6, <1>8, <2>1, <2>2, <2>3
<1>9. ASSUME NEW s \in Query, Knowledge!Compute(s) PROVE Searches'
  <2>1. /\ search'[s].revision = search[s].revision /\ search'[s].before = search[s].before /\ search[s].pc = "index"
        /\ search'[s].pc = "computed" /\ search'[s].chunks = search[s].chunks
        /\ search'[s].found = Knowledge!Ranked(search[s].chunks)
    BY <1>0, <1>4, <1>9 DEF Knowledge!Compute, SearchRecord
  <2>2. QED
    BY <1>3, <1>6, <1>9, <2>1
<1>10. ASSUME NEW s \in Query, NEW b \in BOOLEAN, Knowledge!Store(s, b) PROVE Searches'
  <2>1. /\ search'[s].revision = search[s].revision /\ search'[s].before = search[s].before
        /\ search[s].pc = "computed" /\ search'[s].pc = "done" /\ search'[s].after = chunks
        /\ search'[s].found = search[s].found
    BY <1>0, <1>4, <1>10 DEF Knowledge!Store, SearchRecord
  <2>2. search[s].before \subseteq search[s].chunks /\ search[s].chunks \subseteq chunks
    BY <1>6, <2>1
  <2>3. QED
    BY <1>3, <1>6, <1>10, <2>1, <2>2
<1>11. ASSUME NEW j \in Query,
             Knowledge!Insert(j) \/ Knowledge!Recompute(j) \/ Knowledge!Abort(j) \/ Knowledge!InvalidateRedis(j)
      PROVE  UNCHANGED <<chunks, revision, search>>
  BY <1>11 DEF Knowledge!Insert, Knowledge!Recompute, Knowledge!Abort, Knowledge!InvalidateRedis
<1>12. ASSUME NEW w \in Worker, Knowledge!Forget(w) \/ Knowledge!Restart(w) PROVE UNCHANGED <<chunks, revision, search>>
  BY <1>12 DEF Knowledge!Forget, Knowledge!Restart
<1>13. CASE UNCHANGED knowledgeVars
  BY <1>1, <1>13 DEF knowledgeVars
<1> QED BY <1>1, <1>2, <1>5, <1>7, <1>8, <1>9, <1>10, <1>11, <1>12, <1>13 DEF Knowledge!Next

\* Without the grant a student's question finds nothing, and the owner sees a
\* change unless a retrieval overlapped it or Redis kept a list from being
\* cleared (RagPolicyService, invalidate_user_retrieve_cache); what a search of
\* the knowledge base gives is what the base held at some point between its
\* start and its end (load_index, KnowledgeService.search).
THEOREM RetrievalIsCurrentHolds == ServicesSpec => []RetrievalIsCurrent
<1> DEFINE I == RetInv /\ KnowInv
<1>1. ServicesInit => I
  BY RetrievalInvInitially, KnowInitially DEF ServicesInit
<1>2. I /\ [ServicesNext]_servicesVars => I'
  BY RetrievalInvStep, StepOrStutter, KnowTypeStep, RevisionsStep, IndexesStep, SearchesStep DEF KnowInv
<1>3. I => RetrievalIsCurrent
  BY RetrievalInvSuffices DEF KnowInv, Searches, RetrievalIsCurrent, Knowledge!FoundIsCurrent
<1> HIDE DEF I
<1>4. QED
  BY <1>1, <1>2, <1>3, PTL DEF ServicesSpec, servicesVars

----------------------------------------------------------------------------
\* Texts to read.
LEMMA ReadAssumed == Reading!ReadingAssumption
  BY ContentAssumption

\* What holds of the first value and, with each value, of the next, holds of
\* all values of a sequence.
LEMMA AllValues ==
    ASSUME NEW L \in Nat, NEW f, NEW S, f[0] \in S, \A n \in 1..L : f[n - 1] \in S => f[n] \in S
    PROVE  \A n \in 0..L : f[n] \in S
<1> DEFINE Bad == {n \in 0..L : f[n] \notin S}
<1>1. SUFFICES ASSUME Bad # {} PROVE FALSE
  OBVIOUS
<1>2. PICK n \in Bad : \A k \in Bad : n <= k
  <2>1. Bad \in SUBSET Nat
    OBVIOUS
  <2> HIDE DEF Bad
  <2>2. QED
    BY <1>1, <2>1, Least
<1>3. n # 0 /\ n \in 1..L
  OBVIOUS
<1>4. n - 1 \in 0..L /\ n - 1 \notin Bad
  BY <1>2, <1>3
<1>5. f[n - 1] \in S
  BY <1>4
<1>6. QED
  BY <1>3, <1>5

\* A function defined by recursion on the places of a sequence exists: each
\* value is the one that next gives for the value before.
LEMMA Recursion ==
    ASSUME NEW L \in Nat, NEW V, NEW first \in V, NEW next \in [1..L -> [V -> V]]
    PROVE  \E f \in [0..L -> V] : f[0] = first /\ \A n \in 1..L : f[n] = next[n][f[n - 1]]
<1> DEFINE Upto(m) == \E f \in [0..m -> V] : f[0] = first /\ \A n \in 1..m : f[n] = next[n][f[n - 1]]
           Bad == {m \in 0..L : ~ Upto(m)}
<1>1. Upto(0)
  <2>1. [n \in 0..0 |-> first] \in [0..0 -> V]
    OBVIOUS
  <2>2. [n \in 0..0 |-> first][0] = first /\ 1..0 = {}
    OBVIOUS
  <2>3. WITNESS [n \in 0..0 |-> first] \in [0..0 -> V]
  <2>4. QED
    BY <2>2
<1>2. ASSUME NEW m \in 1..L, Upto(m - 1) PROVE Upto(m)
  <2>1. PICK f \in [0..(m - 1) -> V] : f[0] = first /\ \A n \in 1..(m - 1) : f[n] = next[n][f[n - 1]]
    BY <1>2
  <2> DEFINE g == [n \in 0..m |-> IF n = m THEN next[m][f[m - 1]] ELSE f[n]]
  <2>2. f[m - 1] \in V
    BY <2>1
  <2>3. next[m][f[m - 1]] \in V
    BY <2>2
  <2>4. g \in [0..m -> V] /\ g[0] = first
    BY <2>1, <2>3
  <2>5. ASSUME NEW n \in 1..m PROVE g[n] = next[n][g[n - 1]]
    <3>1. n - 1 \in 0..m /\ n - 1 # m
      OBVIOUS
    <3>2. g[n - 1] = f[n - 1]
      BY <3>1
    <3>3. CASE n = m
      BY <3>2, <3>3
    <3>4. CASE n # m
      <4>1. n \in 1..(m - 1)
        BY <3>4
      <4>2. QED
        BY <2>1, <3>2, <4>1
    <3>5. QED
      BY <3>3, <3>4
  <2> HIDE DEF g
  <2>6. QED
    BY <2>4, <2>5
<1> HIDE DEF Upto
<1>3. SUFFICES ASSUME Bad # {} PROVE FALSE
  <2>1. L \in 0..L
    OBVIOUS
  <2>2. Bad = {} => Upto(L)
    BY <2>1, Zenon
  <2>3. QED
    BY <2>2 DEF Upto
<1>4. PICK m \in Bad : \A k \in Bad : m <= k
  <2>1. Bad \in SUBSET Nat
    OBVIOUS
  <2> HIDE DEF Bad
  <2>2. QED
    BY <1>3, <2>1, Least
<1>5. m \in 1..L
  BY <1>1
<1>6. m - 1 \in 0..L /\ m - 1 \notin Bad
  BY <1>4, <1>5
<1>7. QED
  BY <1>2, <1>5, <1>6

\* The number of unknown words is a number.
LEMMA UnknownIs == \A text \in Seq(Nat) : Reading!Unknown(text) \in Nat
<1>1. SUFFICES ASSUME NEW text \in Seq(Nat) PROVE Reading!Unknown(text) \in Nat
  OBVIOUS
<1> DEFINE L == Len(text)
           Is(f) == f = [n \in 0..L |-> IF n = 0 THEN 0 ELSE f[n - 1] + text[n]]
           total == CHOOSE f : Is(f)
           next == [n \in 1..L |-> [v \in Nat |-> v + text[n]]]
<1>2. L \in Nat /\ \A n \in 1..L : text[n] \in Nat
  OBVIOUS
<1>3. next \in [1..L -> [Nat -> Nat]]
  BY <1>2
<1>4. PICK f \in [0..L -> Nat] : f[0] = 0 /\ \A n \in 1..L : f[n] = next[n][f[n - 1]]
  <2> HIDE DEF next, L
  <2> DEFINE Rec(V) == \A first \in V : \A step \in [1..L -> [V -> V]] :
           \E f \in [0..L -> V] : f[0] = first /\ \A n \in 1..L : f[n] = step[n][f[n - 1]]
  <2>1. \A V : Rec(V)
    BY <1>2, Recursion
  <2> HIDE DEF Rec
  <2>2. Rec(Nat)
    BY <2>1
  <2>3. QED
    BY <1>3, <2>2 DEF Rec
<1>5. Is(f)
  <2>1. ASSUME NEW n \in 0..L, n # 0 PROVE f[n] = f[n - 1] + text[n]
    <3>1. n \in 1..L /\ n - 1 \in 0..L
      BY <2>1, <1>2
    <3>2. QED
      BY <1>4, <3>1
  <2>2. QED
    BY <1>4, <2>1
<1>6. Is(total)
  BY <1>5
<1>7. total[0] = 0 /\ \A n \in 1..L : total[n] = total[n - 1] + text[n]
  <2> HIDE DEF total
  <2>1. QED
    BY <1>2, <1>6
<1> HIDE DEF L
<1>8. \A n \in 0..L : total[n] \in Nat
  <2> HIDE DEF total
  <2>1. QED
    <3>1. ASSUME NEW n \in 1..L, total[n - 1] \in Nat PROVE total[n] \in Nat
      <4>1. text[n] \in Nat /\ total[n] = total[n - 1] + text[n]
        BY <1>2, <1>7
      <4>2. QED
        BY <3>1, <4>1
    <3>2. total[0] \in Nat
      BY <1>7
    <3>3. QED
      BY <1>2, <3>1, <3>2, AllValues, Zenon
<1>9. total[L] \in Nat
  BY <1>2, <1>8
<1>10. QED
  BY <1>9 DEF Reading!Unknown, L

\* The easy sentences of a text are a text.
LEMMA EasyIs == \A text \in Seq(Nat) : Reading!Easy(text) \in Seq(Nat)
<1>1. SUFFICES ASSUME NEW text \in Seq(Nat) PROVE Reading!Easy(text) \in Seq(Nat)
  OBVIOUS
<1> DEFINE L == Len(text)
           Then(v, n) == IF Reading!IsEasy(text[n]) THEN Append(v, text[n]) ELSE v
           Is(f) == f = [n \in 0..L |-> IF n = 0 THEN <<>> ELSE Then(f[n - 1], n)]
           easy == CHOOSE f : Is(f)
           next == [n \in 1..L |-> [v \in Seq(Nat) |-> Then(v, n)]]
<1>2. L \in Nat /\ \A n \in 1..L : text[n] \in Nat
  OBVIOUS
<1>3. \A n \in 1..L : \A v \in Seq(Nat) : Then(v, n) \in Seq(Nat)
  BY <1>2
<1> HIDE DEF Then
<1>4. next \in [1..L -> [Seq(Nat) -> Seq(Nat)]]
  BY <1>3
<1>5. <<>> \in Seq(Nat)
  OBVIOUS
<1>6. PICK f \in [0..L -> Seq(Nat)] : f[0] = <<>> /\ \A n \in 1..L : f[n] = next[n][f[n - 1]]
  <2> HIDE DEF next, L
  <2> DEFINE Rec(V) == \A first \in V : \A step \in [1..L -> [V -> V]] :
           \E f \in [0..L -> V] : f[0] = first /\ \A n \in 1..L : f[n] = step[n][f[n - 1]]
  <2>1. \A V : Rec(V)
    BY <1>2, Recursion
  <2> HIDE DEF Rec
  <2>2. Rec(Seq(Nat))
    BY <2>1
  <2>3. QED
    BY <1>4, <1>5, <2>2 DEF Rec
<1>7. Is(f)
  <2>1. ASSUME NEW n \in 0..L, n # 0 PROVE f[n] = Then(f[n - 1], n)
    <3>1. n \in 1..L /\ n - 1 \in 0..L
      BY <2>1, <1>2
    <3>2. f[n - 1] \in Seq(Nat)
      BY <3>1
    <3>3. QED
      BY <1>6, <3>1, <3>2
  <2>2. f = [n \in 0..L |-> f[n]]
    OBVIOUS
  <2>3. QED
    BY <1>6, <2>1, <2>2
<1>8. Is(easy)
  BY <1>7
<1>9. easy[0] = <<>> /\ (\A n \in 1..L : easy[n] = Then(easy[n - 1], n))
  <2> HIDE DEF easy, L
  <2>1. \A n \in 0..L : easy[n] = IF n = 0 THEN <<>> ELSE Then(easy[n - 1], n)
    BY <1>8, Zenon
  <2>2. 0 \in 0..L /\ \A n \in 1..L : n \in 0..L /\ n # 0
    BY <1>2
  <2>3. QED
    BY <2>1, <2>2, Zenon
<1>10. \A n \in 0..L : easy[n] \in Seq(Nat)
  <2> HIDE DEF easy, L
  <2>1. QED
    <3>1. \A n \in 1..L : easy[n - 1] \in Seq(Nat) => easy[n] \in Seq(Nat)
      BY <1>3, <1>9
    <3>2. easy[0] \in Seq(Nat)
      BY <1>5, <1>9
    <3>3. QED
      BY <1>2, <3>1, <3>2, AllValues, Zenon
<1>11. easy[L] \in Seq(Nat)
  BY <1>2, <1>10
<1>12. QED
  BY <1>11 DEF Reading!Easy, Then

\* Of two texts one is at least as good as the other.
LEMMA GoodOrder ==
    \A s, t \in Seq(Nat) : Reading!AtLeast(s, s) /\ (Reading!AtLeast(s, t) \/ Reading!AtLeast(t, s))
<1>1. SUFFICES ASSUME NEW s \in Seq(Nat), NEW t \in Seq(Nat)
               PROVE  Reading!AtLeast(s, s) /\ (Reading!AtLeast(s, t) \/ Reading!AtLeast(t, s))
  OBVIOUS
<1> DEFINE cut(u) == Reading!Min({Len(u), Reading!MinimumWords})
<1>2. Reading!MinimumWords \in Nat
  BY ReadAssumed DEF Reading!ReadingAssumption, Reading!MinimumWords
<1>3. \A u \in Seq(Nat) : cut(u) \in Nat
  <2>1. \A a, b \in Nat : Reading!Min({a, b}) \in Nat
    <3>1. SUFFICES ASSUME NEW a \in Nat, NEW b \in Nat PROVE Reading!Min({a, b}) \in Nat
      OBVIOUS
    <3>2. \E x \in {a, b} : \A y \in {a, b} : x <= y
      OBVIOUS
    <3>3. Reading!Min({a, b}) \in {a, b}
      BY <3>2 DEF Reading!Min
    <3>4. QED
      BY <3>3
  <2>2. \A u \in Seq(Nat) : Len(u) \in Nat
    OBVIOUS
  <2>3. QED
    BY <1>2, <2>1, <2>2, Zenon
<1>4. /\ Reading!Unknown(s) \in Nat /\ Reading!Unknown(t) \in Nat
      /\ Len(s) \in Nat /\ Len(t) \in Nat
      /\ cut(s) \in Nat /\ cut(t) \in Nat
  BY <1>3, UnknownIs
<1> HIDE DEF cut
<1>5. \A u, v \in Seq(Nat) : Reading!AtLeast(u, v) <=>
        \/ Reading!Unknown(u) < Reading!Unknown(v)
        \/ /\ Reading!Unknown(u) = Reading!Unknown(v)
           /\ \/ cut(u) > cut(v)
              \/ /\ cut(u) = cut(v)
                 /\ Reading!Unknown(u) * Len(v) <= Reading!Unknown(v) * Len(u)
  BY DEF Reading!AtLeast, cut
<1>6. \A a, b \in Nat : a * b \in Nat
  OBVIOUS
<1>7. Reading!AtLeast(s, s)
  <2>1. \A a \in Nat : a <= a
    OBVIOUS
  <2>2. QED
    BY <1>4, <1>5, <1>6, <2>1
<1>8. Reading!AtLeast(s, t) \/ Reading!AtLeast(t, s)
  <2>1. \A a, b \in Nat : a < b \/ a = b \/ b < a
    OBVIOUS
  <2>2. Reading!Unknown(s) * Len(t) \in Nat /\ Reading!Unknown(t) * Len(s) \in Nat
    BY <1>4, <1>6
  <2>3. QED
    BY <1>4, <1>5, <2>2
<1>9. QED
  BY <1>7, <1>8

\* Repairs make a text as long as the one they repair, and leave what passed.
LEMMA MergedIs ==
    ASSUME NEW text \in Seq(Nat), NEW repairs \in Seq(Nat)
    PROVE  /\ Reading!Merged(text, repairs) \in Seq(Nat)
           /\ Len(Reading!Merged(text, repairs)) = Len(text)
           /\ \A i \in DOMAIN text \ Reading!Failures(text) : Reading!Merged(text, repairs)[i] = 0
<1> DEFINE F == Reading!Failures(text)
           rank(i) == Reading!Cardinality({j \in F : j <= i})
           M == Reading!Merged(text, repairs)
<1>1. \A i \in DOMAIN text : text[i] \in Nat /\ (i \in F <=> text[i] # 0)
  BY DEF Reading!Failures
<1>2. CASE Len(repairs) # Reading!Cardinality(F)
  <2>1. M = text
    BY <1>2 DEF Reading!Merged
  <2>2. QED
    BY <1>1, <2>1
<1>3. CASE Len(repairs) = Reading!Cardinality(F)
  <2>1. M = [i \in DOMAIN text |-> IF text[i] = 0 THEN 0 ELSE repairs[rank(i)]]
    BY <1>3 DEF Reading!Merged
  <2>2. ASSUME NEW i \in DOMAIN text, text[i] # 0 PROVE rank(i) \in 1..Len(repairs)
    <3> DEFINE S == {j \in F : j <= i}
    <3>1. i \in S /\ S \subseteq F /\ F \in SUBSET (1..Len(text))
      BY <1>1, <2>2 DEF Reading!Failures
    <3>2. IsFiniteSet(F)
      <4>1. IsFiniteSet(1..Len(text))
        BY FS_Interval, 1 \in Int, Len(text) \in Int
      <4>2. QED
        BY <3>1, <4>1, FS_Subset
    <3>3. IsFiniteSet(S) /\ Cardinality(S) <= Cardinality(F)
      BY <3>1, <3>2, FS_Subset
    <3>4. Cardinality(S) \in Nat /\ Cardinality(S) # 0
      BY <3>1, <3>3, FS_CardinalityType, FS_EmptySet
    <3>5. Reading!Cardinality(S) = Cardinality(S) /\ Reading!Cardinality(F) = Cardinality(F)
      BY DEF Reading!Cardinality, Cardinality, Reading!IsFiniteSet, IsFiniteSet
    <3>6. Cardinality(F) \in Nat
      BY <3>2, FS_CardinalityType
    <3> HIDE DEF S, F
    <3>7. Reading!Cardinality(S) \in 1..Len(repairs)
      BY <1>3, <3>3, <3>4, <3>5, <3>6
    <3>8. QED
      BY <3>7 DEF S
  <2> HIDE DEF rank, F
  <2>3. \A i \in DOMAIN text : M[i] \in Nat
    <3>1. SUFFICES ASSUME NEW i \in DOMAIN text PROVE M[i] \in Nat
      OBVIOUS
    <3>2. CASE text[i] = 0
      BY <2>1, <3>2
    <3>3. CASE text[i] # 0
      <4>1. repairs[rank(i)] \in Nat
        BY <2>2, <3>3
      <4>2. QED
        BY <2>1, <3>3, <4>1
    <3>4. QED
      BY <3>2, <3>3
  <2>4. DOMAIN M = 1..Len(text) /\ M = [i \in 1..Len(text) |-> M[i]]
    BY <2>1
  <2> HIDE DEF M
  <2>5. M \in [1..Len(text) -> Nat]
    <3>1. \A i \in 1..Len(text) : M[i] \in Nat
      BY <2>3
    <3>2. QED
      BY <2>4, <3>1, Zenon
  <2>6. M \in Seq(Nat) /\ Len(M) = Len(text)
    BY SMTT(30), <2>5
  <2>7. \A i \in DOMAIN text \ F : M[i] = 0
    BY <1>1, <2>1
  <2>8. QED
    BY <2>6, <2>7 DEF M, F
<1>4. QED
  BY <1>2, <1>3

\* What the rules make of a source is a text.
LEMMA RulesTextIs == \A s \in Reading!Source : Reading!RulesText(s) \in Seq(Nat)
<1>1. SUFFICES ASSUME NEW s \in Reading!Source PROVE Reading!RulesText(s) \in Seq(Nat)
  OBVIOUS
<1>2. Article[s] \in Seq(Nat) /\ Requested \in Nat
  BY ReadAssumed DEF Reading!ReadingAssumption, Reading!Source
<1>3. \A text \in Seq(Nat), n \in Nat : Reading!Clip(text, n) \in Seq(Nat)
  <2>1. SUFFICES ASSUME NEW text \in Seq(Nat), NEW n \in Nat PROVE Reading!Clip(text, n) \in Seq(Nat)
    OBVIOUS
  <2>2. \E x \in {n, Len(text)} : \A y \in {n, Len(text)} : x <= y
    OBVIOUS
  <2>3. Reading!Min({n, Len(text)}) \in 0..Len(text)
    BY <2>2 DEF Reading!Min
  <2> DEFINE m == Reading!Min({n, Len(text)})
  <2> HIDE DEF m
  <2>4. m \in 0..Len(text) => SubSeq(text, 1, m) \in Seq(Nat)
    OBVIOUS
  <2>5. QED
    BY <2>3, <2>4 DEF Reading!Clip, m
<1>4. Reading!Easy(Article[s]) \in Seq(Nat)
  BY <1>2, EasyIs
<1>5. 4 \in Nat
  OBVIOUS
<1>6. QED
  BY <1>2, <1>3, <1>4, <1>5 DEF Reading!RulesText

RTypes == [text : Seq(Nat), mode : {"llm", "rules"}, english : BOOLEAN]
Tasks ==
    [at : {"lookup", "attempt", "translate", "reuse", "page"}, source : Reading!Source, connected : BOOLEAN,
     attempt : 0..MaxTries, previous : Seq(Nat) \cup {Nobody}, best : Seq(Nat) \cup {Nobody},
     mode : {"llm", "rules"}]
\* A text that is sent on is there; a candidate is never better than the best.
BestSoFar ==
    /\ task.at = "lookup" => task.best = Nobody /\ task.previous = Nobody /\ task.attempt = 0
    /\ task.at = "attempt" => task.attempt < MaxTries
    /\ task.at \in {"translate", "reuse"} => task.best \in Seq(Nat)
    /\ task.previous # Nobody => task.best \in Seq(Nat) /\ Reading!AtLeast(task.best, task.previous)
ReadInv == Reading!TypeOK /\ BestSoFar

\* Reading!TypeOK, in sets of records,
LEMMA ReadTypes ==
    Reading!TypeOK <=>
        /\ fresh \subseteq Feed /\ translated \subseteq Seq(Nat)
        /\ results \in [Reading!Source -> RTypes \cup {Reading!NoResult}]
        /\ task \in Tasks
        /\ given \in RTypes \cup {Reading!NoResult}
        /\ kept \in Seq(RTypes) /\ readings \in 0..MaxReadings /\ reboots \in 0..MaxRestarts
  BY DEF Reading!TypeOK, RTypes, Tasks, Reading!Result, Reading!Texts, Reading!Working

\* and of the next state.
LEMMA ReadTypesNext ==
    Reading!TypeOK' <=>
        /\ fresh' \subseteq Feed /\ translated' \subseteq Seq(Nat)
        /\ results' \in [Reading!Source -> RTypes \cup {Reading!NoResult}]
        /\ task' \in Tasks
        /\ given' \in RTypes \cup {Reading!NoResult}
        /\ kept' \in Seq(RTypes) /\ readings' \in 0..MaxReadings /\ reboots' \in 0..MaxRestarts
  BY DEF Reading!TypeOK, RTypes, Tasks, Reading!Result, Reading!Texts, Reading!Working

\* A request that rests is one.
LEMMA RestingIs == Reading!Resting \in Tasks /\ Topic \in Reading!Source
  BY ReadAssumed DEF Reading!ReadingAssumption, Reading!Resting, Tasks, Reading!Source

\* What the theorem says of a step.
Better == task.best # Nobody /\ task'.best # Nobody => Reading!AtLeast(task'.best, task.best)
Spoilt ==
    /\ task.at = "attempt" /\ task'.attempt > task.attempt /\ Reading!Repairing
    /\ ~ (/\ Len(task'.previous) = Len(task.previous)
          /\ \A i \in DOMAIN task.previous \ Reading!Failures(task.previous) : task'.previous[i] = 0)
GoodStep == Better /\ ~ Spoilt

\* A request that ends has nothing left to spoil.
LEMMA TaskEnds == ASSUME ReadInv, task' = Reading!Resting PROVE BestSoFar' /\ task' \in Tasks /\ GoodStep
<1>1. task'.at = "page" /\ task'.best = Nobody /\ task'.previous = Nobody /\ task'.attempt = 0
  BY DEF Reading!Resting
<1>2. task.attempt \in Nat
  BY ReadTypes DEF ReadInv, Tasks
<1>3. QED
  BY <1>1, <1>2, RestingIs DEF BestSoFar, GoodStep, Better, Spoilt
\* One that stays where it is keeps what it has.
LEMMA TaskStays ==
    ASSUME ReadInv, task'.best = task.best, task'.previous = task.previous, task'.attempt = task.attempt,
           task'.at = task.at
    PROVE  BestSoFar' /\ GoodStep
<1>1. task.best # Nobody => task.best \in Seq(Nat)
  BY ReadTypes DEF ReadInv, Tasks
<1>2. task.attempt \in Nat
  BY ReadTypes DEF ReadInv, Tasks
<1>3. QED
  BY <1>1, <1>2, GoodOrder DEF ReadInv, BestSoFar, GoodStep, Better, Spoilt

\* What is shown is nothing or a result.
LEMMA ShowIs ==
    ASSUME ReadInv, NEW r \in RTypes \cup {Reading!NoResult}, Reading!Show(r)
    PROVE  task' = Reading!Resting /\ given' \in RTypes \cup {Reading!NoResult}
  BY ReadTypes DEF ReadInv, Reading!Show

\* The text that is sent on, with its translation or without, is a result.
LEMMA OutcomeIs ==
    ASSUME ReadInv, task.at \in {"translate", "reuse"}, NEW english \in BOOLEAN
    PROVE  Reading!Outcome(english) \in RTypes /\ task.best \in Seq(Nat)
<1>1. task.best \in Seq(Nat) /\ task.mode \in {"llm", "rules"}
  BY ReadTypes DEF ReadInv, BestSoFar, Tasks
<1>2. QED
  BY <1>1 DEF Reading!Outcome, RTypes

\* An attempt keeps the better of its text and the best before it.
LEMMA AttemptKeeps ==
    ASSUME ReadInv, NEW reply \in Seq(Nat), NEW mode \in {"llm", "rules"}, Reading!Attempt(reply, mode)
    PROVE  ReadInv' /\ GoodStep
<1> DEFINE text == IF Reading!Repairing THEN Reading!Merged(task.previous, reply) ELSE reply
           kept2 == Reading!Keep(text, mode)
<1>1. /\ task \in Tasks /\ task.at = "attempt" /\ task.attempt \in 0..MaxTries /\ task.attempt < MaxTries
      /\ MaxTries \in Nat
  BY ReadTypes, ReadAssumed DEF ReadInv, BestSoFar, Tasks, Reading!Attempt, Reading!ReadingAssumption
<1>2. /\ task.previous \in Seq(Nat) \cup {Nobody} /\ task.best \in Seq(Nat) \cup {Nobody}
      /\ task.mode \in {"llm", "rules"}
  BY <1>1 DEF Tasks
<1>3. Reading!Repairing => task.previous \in Seq(Nat)
  BY <1>2 DEF Reading!Repairing
<1>4. text \in Seq(Nat)
  BY <1>3, MergedIs
<1>5. PICK at \in {"translate", "attempt"} :
        /\ task' = [task EXCEPT !.at = at, !.attempt = @ + 1, !.previous = text,
                                !.best = kept2.best, !.mode = kept2.mode]
        /\ at = "attempt" => task.attempt + 1 # MaxTries
  BY <1>1 DEF Reading!Attempt
<1>6. /\ kept2.best \in Seq(Nat) /\ kept2.mode \in {"llm", "rules"}
      /\ Reading!AtLeast(kept2.best, text)
      /\ task.best # Nobody => Reading!AtLeast(kept2.best, task.best)
  <2> HIDE DEF text
  <2>1. CASE task.best = Nobody \/ Reading!AtLeast(text, task.best)
    <3>1. kept2 = [best |-> text, mode |-> mode]
      BY <2>1 DEF Reading!Keep
    <3>2. QED
      BY <1>4, <2>1, <3>1, GoodOrder
  <2>2. CASE ~ (task.best = Nobody \/ Reading!AtLeast(text, task.best))
    <3>1. kept2 = [best |-> task.best, mode |-> task.mode]
      BY <2>2 DEF Reading!Keep
    <3>2. task.best \in Seq(Nat)
      BY <1>2, <2>2
    <3>3. QED
      BY <1>2, <1>4, <2>2, <3>1, <3>2, GoodOrder
  <2>3. QED
    BY <2>1, <2>2
<1>7. Reading!Repairing => /\ Len(text) = Len(task.previous)
                           /\ \A i \in DOMAIN task.previous \ Reading!Failures(task.previous) : text[i] = 0
  BY <1>3, MergedIs
<1> HIDE DEF text, kept2
<1>8. /\ task'.at = at /\ task'.attempt = task.attempt + 1 /\ task'.previous = text
      /\ task'.best = kept2.best /\ task'.mode = kept2.mode
      /\ task'.source = task.source /\ task'.connected = task.connected
  BY <1>1, <1>5 DEF Tasks
<1>9. task' \in Tasks
  <2>1. task.attempt + 1 \in 0..MaxTries
    BY <1>1
  <2>2. QED
    BY <1>1, <1>4, <1>5, <1>6, <2>1 DEF Tasks
<1>10. Reading!TypeOK'
  BY <1>9, ReadTypes, ReadTypesNext DEF ReadInv, Reading!Attempt, RTypes
<1>11. BestSoFar'
  <2>1. at = "attempt" => task.attempt + 1 < MaxTries
    BY <1>1, <1>5
  <2>2. QED
    BY <1>6, <1>8, <2>1 DEF BestSoFar
<1>12. GoodStep
  BY <1>6, <1>7, <1>8 DEF GoodStep, Better, Spoilt
<1>13. QED
  BY <1>10, <1>11, <1>12 DEF ReadInv

\* Every step keeps the invariant of the texts, never trades the best for
\* a worse one and spoils nothing that passed.
LEMMA ReadingStays ==
    ASSUME ReadInv, [Reading!Next]_(Reading!readingVars)
    PROVE  ReadInv' /\ GoodStep
<1>1. /\ fresh \subseteq Feed /\ translated \subseteq Seq(Nat)
      /\ results \in [Reading!Source -> RTypes \cup {Reading!NoResult}]
      /\ task \in Tasks
      /\ given \in RTypes \cup {Reading!NoResult}
      /\ kept \in Seq(RTypes) /\ readings \in 0..MaxReadings /\ reboots \in 0..MaxRestarts
  BY ReadTypes DEF ReadInv
<1>2. MaxReadings \in Nat /\ MaxRestarts \in Nat /\ MaxTries \in Nat \ {0}
  BY ReadAssumed DEF Reading!ReadingAssumption
<1>3. SUFFICES ASSUME TRUE
      PROVE  /\ BestSoFar' /\ GoodStep
             /\ fresh' \subseteq Feed /\ translated' \subseteq Seq(Nat)
             /\ results' \in [Reading!Source -> RTypes \cup {Reading!NoResult}]
             /\ task' \in Tasks
             /\ given' \in RTypes \cup {Reading!NoResult}
             /\ kept' \in Seq(RTypes) /\ readings' \in 0..MaxReadings /\ reboots' \in 0..MaxRestarts
  BY ReadTypesNext DEF ReadInv, RTypes
<1>4. ASSUME NEW answering \in SUBSET Feed, NEW s \in Reading!Source, Reading!Fetch(answering, s)
      PROVE  /\ BestSoFar' /\ GoodStep /\ task' \in Tasks
             /\ fresh' \subseteq Feed /\ readings' \in 0..MaxReadings
  <2>1. task' \in Tasks /\ task'.at = "lookup" /\ task'.best = Nobody /\ task'.previous = Nobody
      /\ task'.attempt = 0
    BY <1>4, RestingIs DEF Reading!Fetch, Tasks, Reading!Resting
  <2>2. BestSoFar' /\ GoodStep
    BY <1>4, <2>1 DEF Reading!Fetch, BestSoFar, GoodStep, Better, Spoilt
  <2>3. readings' \in 0..MaxReadings /\ fresh' \subseteq Feed
    BY <1>1, <1>2, <1>4 DEF Reading!Fetch
  <2>4. QED
    BY <2>1, <2>2, <2>3
<1>5. ASSUME Reading!FetchTopic
      PROVE  BestSoFar' /\ GoodStep /\ task' \in Tasks /\ readings' \in 0..MaxReadings
  <2>1. task' \in Tasks /\ task'.at = "lookup" /\ task'.best = Nobody /\ task'.previous = Nobody
      /\ task'.attempt = 0
    BY <1>5, RestingIs DEF Reading!FetchTopic, Tasks, Reading!Resting
  <2>2. BestSoFar' /\ GoodStep
    BY <1>5, <2>1 DEF Reading!FetchTopic, BestSoFar, GoodStep, Better, Spoilt
  <2>3. readings' \in 0..MaxReadings
    BY <1>1, <1>2, <1>5 DEF Reading!FetchTopic
  <2>4. QED
    BY <2>1, <2>2, <2>3
<1>6. ASSUME NEW hears \in BOOLEAN, Reading!Lookup(hears)
      PROVE  BestSoFar' /\ GoodStep /\ task' \in Tasks /\ given' \in RTypes \cup {Reading!NoResult}
  <2> DEFINE hit == IF hears THEN results[task.source] ELSE Reading!NoResult
  <2>1. hit \in RTypes \cup {Reading!NoResult} /\ task.at = "lookup" /\ task.best = Nobody
      /\ task.previous = Nobody /\ task.attempt = 0
    <3>1. task.source \in Reading!Source
      BY <1>1 DEF Tasks
    <3>2. QED
      BY <1>1, <1>6, <3>1 DEF Reading!Lookup, ReadInv, BestSoFar
  <2>2. hit \in RTypes => hit.text \in Seq(Nat) /\ hit.mode \in {"llm", "rules"}
    BY DEF RTypes
  <2>3. CASE hit # Reading!NoResult /\ hit.english
    <3>1. Reading!Show(hit)
      BY <1>6, <2>3 DEF Reading!Lookup
    <3> HIDE DEF hit
    <3>2. QED
      BY <2>1, <3>1, ShowIs, TaskEnds
  <2>4. CASE hit = Reading!NoResult
    <3>1. task' = [task EXCEPT !.at = "attempt"] /\ given' = given
      BY <1>6, <2>4 DEF Reading!Lookup
    <3>2. task' \in Tasks /\ task'.at = "attempt" /\ task'.best = Nobody /\ task'.attempt = task.attempt
          /\ task'.previous = task.previous
      BY <1>1, <2>1, <3>1 DEF Tasks
    <3>3. QED
      BY <1>1, <1>2, <2>1, <3>1, <3>2 DEF BestSoFar, GoodStep, Better, Spoilt
  <2>5. CASE hit # Reading!NoResult /\ ~ hit.english
    <3>1. task' = [task EXCEPT !.at = "reuse", !.best = hit.text, !.mode = hit.mode] /\ given' = given
      BY <1>6, <2>5 DEF Reading!Lookup
    <3> HIDE DEF hit
    <3>2. hit.text \in Seq(Nat) /\ hit.mode \in {"llm", "rules"}
      BY <2>1, <2>2, <2>5
    <3>3. task' \in Tasks /\ task'.at = "reuse" /\ task'.best = hit.text /\ task'.previous = task.previous
      BY <1>1, <3>1, <3>2 DEF Tasks
    <3>4. QED
      BY <1>1, <2>1, <3>1, <3>2, <3>3 DEF BestSoFar, GoodStep, Better, Spoilt
  <2>6. QED
    BY <2>3, <2>4, <2>5
<1>7. ASSUME Reading!Cancel \/ Reading!TimeOut PROVE task' = Reading!Resting
  BY <1>7 DEF Reading!Cancel, Reading!TimeOut, Reading!Leave
<1>8. ASSUME NEW english \in BOOLEAN, Reading!Translation(english), task.at \in {"translate", "reuse"}
      PROVE  translated' \subseteq Seq(Nat) /\ Reading!Outcome(english) \in RTypes
  BY <1>1, <1>8, OutcomeIs DEF Reading!Translation
<1>9. ASSUME NEW english \in BOOLEAN, NEW stored \in BOOLEAN, Reading!Finish(english, stored)
      PROVE  /\ BestSoFar' /\ GoodStep /\ task' \in Tasks /\ translated' \subseteq Seq(Nat)
             /\ results' \in [Reading!Source -> RTypes \cup {Reading!NoResult}]
             /\ given' \in RTypes \cup {Reading!NoResult}
  <2>1. task.at = "translate" /\ Reading!Translation(english) /\ Reading!Show(Reading!Outcome(english))
    BY <1>9 DEF Reading!Finish
  <2>2. translated' \subseteq Seq(Nat) /\ Reading!Outcome(english) \in RTypes
    BY <1>8, <2>1
  <2>3. results' \in [Reading!Source -> RTypes \cup {Reading!NoResult}]
    BY <1>1, <1>9, <2>2 DEF Reading!Finish
  <2>4. QED
    BY <2>1, <2>2, <2>3, ShowIs, TaskEnds
<1>10. ASSUME NEW english \in BOOLEAN, Reading!Reuse(english)
       PROVE  /\ BestSoFar' /\ GoodStep /\ task' \in Tasks /\ translated' \subseteq Seq(Nat)
              /\ given' \in RTypes \cup {Reading!NoResult}
  <2>1. task.at = "reuse" /\ Reading!Translation(english) /\ Reading!Show(Reading!Outcome(english))
    BY <1>10 DEF Reading!Reuse
  <2>2. translated' \subseteq Seq(Nat) /\ Reading!Outcome(english) \in RTypes
    BY <1>8, <2>1
  <2>3. QED
    BY <2>1, <2>2, ShowIs, TaskEnds
<1>11. ASSUME Reading!Disconnect
       PROVE  BestSoFar' /\ GoodStep /\ task' \in Tasks /\ given' \in RTypes \cup {Reading!NoResult}
  <2>1. task' = [task EXCEPT !.connected = FALSE] /\ given' = Reading!NoResult
    BY <1>11 DEF Reading!Disconnect
  <2>2. /\ task' \in Tasks /\ task'.at = task.at /\ task'.best = task.best
        /\ task'.previous = task.previous /\ task'.attempt = task.attempt
    BY <1>1, <2>1 DEF Tasks
  <2>3. QED
    BY <2>1, <2>2, TaskStays
<1>12. task' = task => BestSoFar' /\ GoodStep /\ task' \in Tasks
  BY <1>1, TaskStays
<1>13. Reading!NoResult \in RTypes \cup {Reading!NoResult}
  OBVIOUS
<1>14. ASSUME Reading!Adapt \/ Reading!AdaptByRules PROVE ReadInv' /\ GoodStep
  <2>1. CASE Reading!Adapt
    <3>1. PICK text \in Written : Reading!Attempt(text, "llm")
      BY <2>1 DEF Reading!Adapt
    <3>2. text \in Seq(Nat)
      BY ReadAssumed DEF Reading!ReadingAssumption
    <3>3. QED
      BY <3>1, <3>2, AttemptKeeps
  <2>2. CASE Reading!AdaptByRules
    <3>1. task.source \in Reading!Source
      BY <1>1 DEF Tasks
    <3>2. QED
      BY <2>2, <3>1, RulesTextIs, AttemptKeeps DEF Reading!AdaptByRules
  <2>3. QED
    BY <1>14, <2>1, <2>2
<1>15. ReadInv' => /\ BestSoFar' /\ task' \in Tasks
                   /\ fresh' \subseteq Feed /\ translated' \subseteq Seq(Nat)
                   /\ results' \in [Reading!Source -> RTypes \cup {Reading!NoResult}]
                   /\ given' \in RTypes \cup {Reading!NoResult}
                   /\ kept' \in Seq(RTypes) /\ readings' \in 0..MaxReadings /\ reboots' \in 0..MaxRestarts
  BY ReadTypesNext DEF ReadInv, RTypes
<1>16. ASSUME Reading!Save PROVE kept' \in Seq(RTypes)
  BY <1>1, <1>16 DEF Reading!Save
<1>17. ASSUME Reading!Restart
       PROVE  fresh' \subseteq Feed /\ kept' \in Seq(RTypes) /\ task' = Reading!Resting /\ reboots' \in 0..MaxRestarts
  BY <1>1, <1>2, <1>17 DEF Reading!Restart
<1>18. ASSUME NEW s \in Reading!Source, Reading!ExpireResult(s)
       PROVE  results' \in [Reading!Source -> RTypes \cup {Reading!NoResult}]
  BY <1>1, <1>18 DEF Reading!ExpireResult
<1>19. CASE UNCHANGED Reading!readingVars
  BY <1>1, <1>12, <1>19 DEF Reading!readingVars
<1>20. CASE \E answering \in SUBSET Feed, s \in Reading!Source : Reading!Fetch(answering, s)
  BY <1>1, <1>4, <1>20 DEF Reading!Fetch
<1>21. CASE Reading!FetchTopic
  BY <1>1, <1>5, <1>21 DEF Reading!FetchTopic
<1>22. CASE \E hears \in BOOLEAN : Reading!Lookup(hears)
  <2>1. PICK hears \in BOOLEAN : Reading!Lookup(hears)
    BY <1>22
  <2>2. UNCHANGED <<fresh, results, translated, kept, readings, reboots>>
    BY <2>1 DEF Reading!Lookup
  <2>3. QED
    BY <1>1, <1>6, <2>1, <2>2
<1>23. CASE Reading!Cancel \/ Reading!TimeOut
  <2>1. UNCHANGED <<fresh, results, translated, given, kept, readings, reboots>>
    BY <1>23 DEF Reading!Cancel, Reading!TimeOut, Reading!Leave
  <2>2. QED
    BY <1>1, <1>7, <1>23, <2>1, TaskEnds
<1>24. CASE \E english \in BOOLEAN, stored \in BOOLEAN : Reading!Finish(english, stored)
  <2>1. PICK english \in BOOLEAN, stored \in BOOLEAN : Reading!Finish(english, stored)
    BY <1>24
  <2>2. UNCHANGED <<fresh, kept, readings, reboots>>
    BY <2>1 DEF Reading!Finish
  <2>3. QED
    BY <1>1, <1>9, <2>1, <2>2
<1>25. CASE \E english \in BOOLEAN : Reading!Reuse(english)
  <2>1. PICK english \in BOOLEAN : Reading!Reuse(english)
    BY <1>25
  <2>2. UNCHANGED <<fresh, results, kept, readings, reboots>>
    BY <2>1 DEF Reading!Reuse
  <2>3. QED
    BY <1>1, <1>10, <2>1, <2>2
<1>26. CASE Reading!Disconnect
  BY <1>1, <1>11, <1>26 DEF Reading!Disconnect
<1>27. CASE Reading!Save
  BY <1>1, <1>12, <1>16, <1>27 DEF Reading!Save
<1>28. CASE Reading!Restart
  BY <1>1, <1>17, <1>28, TaskEnds DEF Reading!Restart
<1>29. CASE \E s \in Reading!Source : Reading!ExpireResult(s)
  BY <1>1, <1>12, <1>18, <1>29 DEF Reading!ExpireResult
<1>30. CASE \E f \in Feed : Reading!ExpireFeed(f)
  BY <1>1, <1>12, <1>30 DEF Reading!ExpireFeed
<1>31. CASE \E text \in translated : Reading!ExpireTranslation(text)
  BY <1>1, <1>12, <1>31 DEF Reading!ExpireTranslation
<1>32. CASE Reading!Adapt \/ Reading!AdaptByRules
  BY <1>14, <1>15, <1>32
<1>33. QED
  BY <1>19, <1>20, <1>21, <1>22, <1>23, <1>24, <1>25, <1>26, <1>27, <1>28, <1>29, <1>30, <1>31, <1>32
  DEF Reading!Next, Reading!TranslateText

\* The invariant of the texts holds initially.
LEMMA ReadInitially == Reading!Init => ReadInv
<1>1. SUFFICES ASSUME Reading!Init PROVE ReadInv
  OBVIOUS
<1>2. task = Reading!Resting /\ task \in Tasks
  BY <1>1, RestingIs DEF Reading!Init
<1>3. task.at = "page" /\ task.previous = Nobody
  BY <1>2 DEF Reading!Resting
<1>4. MaxReadings \in Nat /\ MaxRestarts \in Nat
  BY ReadAssumed DEF Reading!ReadingAssumption
<1>5. <<>> \in Seq(RTypes)
  OBVIOUS
<1>6. Reading!TypeOK
  BY <1>1, <1>2, <1>4, <1>5, ReadTypes DEF Reading!Init
<1>7. QED
  BY <1>3, <1>6 DEF ReadInv, BestSoFar

\* Of the texts written for a reader the best is kept, and the sentences that
\* passed are not spoilt by repairs (ReadingService.generate).
THEOREM ReadingIsBestHolds == ServicesSpec => ReadingIsBest
<1> DEFINE Kept == task.previous # Nobody => Reading!AtLeast(task.best, task.previous)
           Stay == task.at = "attempt" /\ task'.attempt > task.attempt /\ Reading!Repairing
                    => /\ Len(task'.previous) = Len(task.previous)
                       /\ \A i \in DOMAIN task.previous \ Reading!Failures(task.previous) :
                             task'.previous[i] = 0
<1>1. ServicesInit => ReadInv
  BY ReadInitially DEF ServicesInit
<1>2. ReadInv /\ [ServicesNext]_servicesVars => ReadInv'
  BY StepOrStutter, ReadingStays DEF Reading!readingVars, readingVars
<1>3. ReadInv => Kept
  BY DEF ReadInv, BestSoFar
<1>4. ReadInv /\ [ServicesNext]_servicesVars => [Better]_(Reading!readingVars)
  BY StepOrStutter, ReadingStays DEF Reading!readingVars, readingVars, GoodStep
<1>5. ReadInv /\ [ServicesNext]_servicesVars => [Stay]_(Reading!readingVars)
  BY StepOrStutter, ReadingStays DEF Reading!readingVars, readingVars, GoodStep, Spoilt
<1>6. QED
  BY <1>1, <1>2, <1>3, <1>4, <1>5, PTL
  DEF ServicesSpec, servicesVars, ReadingIsBest, Reading!BestIsKept, Reading!PassingSentencesStay, Better

----------------------------------------------------------------------------
\* Rules that only compute.
LEMMA RulesAssumed == Rules!RulesAssumption
  BY ContentAssumption

\* The bounds of the rules are numbers, none of them zero.
LEMMA RuleBounds ==
    /\ MaxLength \in Nat \ {0} /\ MaxWords \in Nat \ {0} /\ MaxCount \in Nat \ {0} /\ LineSize \in Nat \ {0}
    /\ MaxLines \in Nat \ {0} /\ Heading \in Nat \ {0} /\ MaxQuestions \in Nat \ {0} /\ MaxOptions \in Nat \ {0}
  BY RulesAssumed DEF Rules!RulesAssumption

\* A bounded set of numbers has a greatest one.
LEMMA Greatest ==
    ASSUME NEW m \in Nat, NEW T \in SUBSET (0..m), T # {}
    PROVE  \E x \in T : \A y \in T : y <= x
<1> DEFINE Far == {n \in 0..m : m - n \in T}
<1>1. PICK t \in T : TRUE
  OBVIOUS
<1>2. m - t \in Far
  BY <1>1
<1>3. Far \in SUBSET Nat
  OBVIOUS
<1>4. PICK n \in Far : \A k \in Far : n <= k
  <2> HIDE DEF Far
  <2> QED BY <1>2, <1>3, Least
<1>5. ASSUME NEW y \in T PROVE y <= m - n
  <2>1. m - y \in Far
    OBVIOUS
  <2> QED BY <1>4, <2>1
<1> QED BY <1>4, <1>5

\* The sum of the sizes at the places of a set, place by place.
SumsOf(sizes, places) ==
    {f \in [0..Len(sizes) -> Nat] :
        /\ f[0] = 0 /\ Rules!Weight(sizes, places) = f[Len(sizes)]
        /\ \A n \in 1..Len(sizes) : f[n] = f[n - 1] + (IF n \in places THEN sizes[n] ELSE 0)}
\* Every weight is such a sum.
LEMMA WeightIs == \A sizes \in Seq(Nat) : \A places : SumsOf(sizes, places) # {}
<1> SUFFICES ASSUME NEW sizes \in Seq(Nat), NEW places PROVE SumsOf(sizes, places) # {}
  OBVIOUS
<1> DEFINE L == Len(sizes)
           Then(v, n) == v + (IF n \in places THEN sizes[n] ELSE 0)
           Is(f) == f = [n \in 0..L |-> IF n = 0 THEN 0 ELSE Then(f[n - 1], n)]
           sum == CHOOSE f : Is(f)
           next == [n \in 1..L |-> [v \in Nat |-> Then(v, n)]]
<1>1. L \in Nat /\ \A n \in 1..L : sizes[n] \in Nat
  OBVIOUS
<1>2. \A n \in 1..L : \A v \in Nat : Then(v, n) \in Nat
  BY <1>1
<1> HIDE DEF Then
<1>3. next \in [1..L -> [Nat -> Nat]]
  BY <1>2
<1>4. PICK f \in [0..L -> Nat] : f[0] = 0 /\ \A n \in 1..L : f[n] = next[n][f[n - 1]]
  <2> HIDE DEF next, L
  <2> DEFINE Rec(V) == \A first \in V : \A step \in [1..L -> [V -> V]] :
           \E f \in [0..L -> V] : f[0] = first /\ \A n \in 1..L : f[n] = step[n][f[n - 1]]
  <2>1. \A V : Rec(V)
    BY <1>1, Recursion
  <2> HIDE DEF Rec
  <2>2. Rec(Nat)
    BY <2>1
  <2> QED BY <1>3, <2>2 DEF Rec
<1>5. \A n \in 1..L : f[n] = Then(f[n - 1], n)
  <2>1. ASSUME NEW n \in 1..L PROVE f[n] = Then(f[n - 1], n)
    <3>1. f[n - 1] \in Nat
      <4>1. n - 1 \in 0..L
        BY <2>1, <1>1
      <4> QED BY <4>1
    <3>2. next[n][f[n - 1]] = Then(f[n - 1], n)
      BY <3>1
    <3> QED BY <1>4, <3>2
  <2> QED BY <2>1
<1>6. Is(f)
  <2>1. \A n \in 0..L : n # 0 => n \in 1..L
    BY <1>1
  <2> QED BY <1>4, <1>5, <2>1
<1>7. Is(sum)
  BY <1>6
<1>8. sum \in [0..L -> Nat] /\ sum[0] = 0 /\ \A n \in 1..L : sum[n] = Then(sum[n - 1], n)
  <2> HIDE DEF sum, L
  <2>1. DOMAIN sum = 0..L /\ \A n \in 0..L : sum[n] = IF n = 0 THEN 0 ELSE Then(sum[n - 1], n)
    BY <1>7, Zenon
  <2>2. sum[0] = 0 /\ \A n \in 1..L : sum[n] = Then(sum[n - 1], n)
    BY <1>1, <2>1
  <2>3. \A n \in 1..L : sum[n - 1] \in Nat => sum[n] \in Nat
    BY <1>2, <2>2
  <2>4. \A n \in 0..L : sum[n] \in Nat
    BY ZenonT(40), <1>1, <2>2, <2>3, AllValues, 0 \in Nat
  <2>5. sum = [n \in 0..L |-> sum[n]]
    BY <1>7
  <2> QED BY <2>2, <2>4, <2>5
<1>9. Rules!Weight(sizes, places) = sum[L]
  BY DEF Rules!Weight, Then
<1> HIDE DEF sum
<1> QED BY <1>8, <1>9 DEF Then, SumsOf

\* The weight of a set of places is a number, and grows with the set.
LEMMA WeightGrows ==
    ASSUME NEW sizes \in Seq(Nat), NEW few, NEW many, \A n \in 1..Len(sizes) : n \in few => n \in many
    PROVE  /\ Rules!Weight(sizes, few) \in Nat /\ Rules!Weight(sizes, many) \in Nat
           /\ Rules!Weight(sizes, few) <= Rules!Weight(sizes, many)
<1>1. PICK f \in SumsOf(sizes, few) : TRUE
  BY WeightIs
<1>2. PICK g \in SumsOf(sizes, many) : TRUE
  BY WeightIs
<1>3. /\ f \in [0..Len(sizes) -> Nat] /\ f[0] = 0 /\ Rules!Weight(sizes, few) = f[Len(sizes)]
      /\ \A n \in 1..Len(sizes) : f[n] = f[n - 1] + (IF n \in few THEN sizes[n] ELSE 0)
  BY DEF SumsOf
<1>4. /\ g \in [0..Len(sizes) -> Nat] /\ g[0] = 0 /\ Rules!Weight(sizes, many) = g[Len(sizes)]
      /\ \A n \in 1..Len(sizes) : g[n] = g[n - 1] + (IF n \in many THEN sizes[n] ELSE 0)
  BY DEF SumsOf
<1> DEFINE L == Len(sizes)
           less == [n \in 0..L |-> f[n] <= g[n]]
<1>5. L \in Nat /\ \A n \in 1..L : sizes[n] \in Nat
  OBVIOUS
<1>6. \A n \in 1..L : f[n - 1] <= g[n - 1] => f[n] <= g[n]
  <2>1. SUFFICES ASSUME NEW n \in 1..L, f[n - 1] <= g[n - 1] PROVE f[n] <= g[n]
    OBVIOUS
  <2>2. n - 1 \in 0..L /\ n \in 0..L /\ sizes[n] \in Nat
    BY <1>5
  <2>3. f[n - 1] \in Nat /\ g[n - 1] \in Nat
    BY <1>3, <1>4, <2>2
  <2>4. CASE n \in few
    <3>1. n \in many
      BY <2>4
    <3>2. f[n] = f[n - 1] + sizes[n] /\ g[n] = g[n - 1] + sizes[n]
      BY <1>3, <1>4, <2>4, <3>1
    <3> QED BY <2>1, <2>2, <2>3, <3>2
  <2>5. CASE n \notin few
    <3>1. f[n] = f[n - 1] + 0 /\ g[n] \in {g[n - 1] + sizes[n], g[n - 1] + 0}
      BY <1>3, <1>4, <2>5
    <3> QED BY <2>1, <2>2, <2>3, <3>1
  <2> QED BY <2>4, <2>5
<1>7. less[0] \in {TRUE} /\ \A n \in 1..L : less[n - 1] \in {TRUE} => less[n] \in {TRUE}
  <2>1. 0 \in 0..L /\ \A n \in 1..L : n \in 0..L /\ n - 1 \in 0..L
    BY <1>5
  <2>2. \A n \in 0..L : less[n] = (f[n] <= g[n])
    OBVIOUS
  <2>3. f[0] <= g[0]
    BY <1>3, <1>4
  <2> HIDE DEF less, L
  <2> QED BY <1>6, <2>1, <2>2, <2>3
<1>8. \A n \in 0..L : less[n] \in {TRUE}
  <2> HIDE DEF less, L
  <2> QED BY <1>5, <1>7, AllValues, ZenonT(40)
<1>9. f[L] <= g[L]
  <2>1. L \in 0..L
    BY <1>5
  <2>2. less[L] \in {TRUE}
    BY <1>8, <2>1
  <2>3. less[L] = (f[L] <= g[L])
    BY <2>1
  <2> HIDE DEF less, L
  <2> QED BY <2>2, <2>3
<1> QED BY <1>3, <1>4, <1>5, <1>9

\* No places weigh nothing.
LEMMA NothingWeighs == ASSUME NEW sizes \in Seq(Nat) PROVE Rules!Weight(sizes, {}) = 0
<1>1. PICK f \in SumsOf(sizes, {}) : TRUE
  BY WeightIs
<1>2. /\ f \in [0..Len(sizes) -> Nat] /\ f[0] = 0 /\ Rules!Weight(sizes, {}) = f[Len(sizes)]
      /\ \A n \in 1..Len(sizes) : f[n] = f[n - 1] + 0
  BY DEF SumsOf
<1>3. Len(sizes) \in Nat /\ f[0] \in {0}
  BY <1>2
<1>4. \A n \in 1..Len(sizes) : f[n - 1] \in {0} => f[n] \in {0}
  BY <1>2
<1>5. \A n \in 0..Len(sizes) : f[n] \in {0}
  BY <1>3, <1>4, AllValues, ZenonT(40)
<1> QED BY <1>2, <1>3, <1>5

\* The sizes of messages are numbers.
LEMMA SizesAre ==
    ASSUME NEW messages \in Seq(Rules!Messages)
    PROVE  /\ Rules!SizesOf(messages) \in Seq(Nat) /\ Len(Rules!SizesOf(messages)) = Len(messages)
           /\ DOMAIN messages = 1..Len(messages)
<1>1. \A i \in 1..Len(messages) : messages[i].size \in Nat
  <2>1. Sizes \subseteq Nat
    BY RulesAssumed DEF Rules!RulesAssumption
  <2>2. \A m \in Rules!Messages : m.size \in Nat
    BY <2>1 DEF Rules!Messages
  <2>3. \A i \in 1..Len(messages) : messages[i] \in Rules!Messages
    OBVIOUS
  <2> QED BY <2>2, <2>3
<1>2. DOMAIN messages = 1..Len(messages)
  OBVIOUS
<1> QED BY <1>1, <1>2 DEF Rules!SizesOf

\* The system messages that are kept fit.
LEMMA SystemsFit ==
    ASSUME NEW messages \in Seq(Rules!Messages), NEW budget \in Nat
    PROVE  Rules!Weight(Rules!SizesOf(messages), Rules!KeptSystem(messages, budget)) <= budget
<1> DEFINE sizes == Rules!SizesOf(messages)
           systems == Rules!Systems(messages)
           held == Rules!KeptSystem(messages, budget)
<1>1. sizes \in Seq(Nat) /\ Len(sizes) = Len(messages) /\ Len(messages) \in Nat
  BY SizesAre
<1>2. held \subseteq systems /\ systems \subseteq 1..Len(messages)
  BY SizesAre DEF Rules!KeptSystem, Rules!Systems
<1>3. CASE held = {}
  BY <1>1, <1>3, NothingWeighs
<1>4. CASE held # {}
  <2>1. PICK m \in held : \A i \in held : i <= m
    <3>1. held \in SUBSET (0..Len(messages))
      BY <1>1, <1>2
    <3> HIDE DEF held
    <3> QED BY <1>1, <1>4, <3>1, Greatest
  <2>2. Rules!Weight(sizes, systems \cap 1..m) <= budget
    BY <2>1 DEF Rules!KeptSystem
  <2>3. \A i \in held : i \in systems \cap 1..m
    BY <1>2, <2>1
  <2> HIDE DEF sizes, held, systems
  <2>4. /\ Rules!Weight(sizes, held) \in Nat /\ Rules!Weight(sizes, systems \cap 1..m) \in Nat
        /\ Rules!Weight(sizes, held) <= Rules!Weight(sizes, systems \cap 1..m)
    BY <1>1, <2>3, WeightGrows
  <2> QED BY <2>2, <2>4 DEF sizes, held
<1> QED BY <1>3, <1>4

\* What is kept holds the system messages that are, and fits.
LEMMA KeptFits ==
    ASSUME NEW messages \in Seq(Rules!Messages), NEW budget \in Nat, NEW systems \in SUBSET DOMAIN messages,
           Rules!Weight(Rules!SizesOf(messages), systems) <= budget
    PROVE  /\ systems \subseteq Rules!Kept(messages, systems, budget)
           /\ Rules!Kept(messages, systems, budget) \subseteq DOMAIN messages
           /\ Rules!Weight(Rules!SizesOf(messages), Rules!Kept(messages, systems, budget)) <= budget
<1> DEFINE L == Len(messages)
           end == Len(messages) + 1
           Then(v, k) == IF /\ end - k \in Rules!Others(messages)
                            /\ Rules!Weight(Rules!SizesOf(messages), v \union {end - k}) <= budget
                         THEN v \union {end - k} ELSE v
           V == {set \in SUBSET DOMAIN messages : systems \subseteq set /\ Rules!Weight(Rules!SizesOf(messages), set) <= budget}
           Is(f) == f = [k \in 0..L |-> IF k = 0 THEN systems ELSE Then(f[k - 1], k)]
           held == CHOOSE f : Is(f)
           next == [k \in 1..L |-> [v \in V |-> Then(v, k)]]
<1>1. L \in Nat
  OBVIOUS
<1>2. \A k \in 1..L : \A v \in V : Then(v, k) \in V
  BY DEF Rules!Others
<1>3. systems \in V
  OBVIOUS
<1>4. held[L] = Rules!Kept(messages, systems, budget)
  BY DEF Rules!Kept
<1> HIDE DEF Then, V
<1>5. next \in [1..L -> [V -> V]]
  BY <1>2
<1>6. PICK f \in [0..L -> V] : f[0] = systems /\ \A k \in 1..L : f[k] = next[k][f[k - 1]]
  <2> HIDE DEF next, L
  <2> DEFINE Rec(W) == \A first \in W : \A step \in [1..L -> [W -> W]] :
           \E f \in [0..L -> W] : f[0] = first /\ \A n \in 1..L : f[n] = step[n][f[n - 1]]
  <2>1. \A W : Rec(W)
    BY <1>1, Recursion
  <2> HIDE DEF Rec
  <2>2. Rec(V)
    BY <2>1
  <2> QED BY <1>3, <1>5, <2>2 DEF Rec
<1>7. \A k \in 1..L : f[k] = Then(f[k - 1], k)
  <2>1. ASSUME NEW k \in 1..L PROVE f[k] = Then(f[k - 1], k)
    <3>1. f[k - 1] \in V
      BY <2>1, <1>1
    <3> QED BY <1>6, <3>1
  <2> QED BY <2>1
<1>8. Is(f)
  <2>1. \A k \in 0..L : k # 0 => k \in 1..L
    BY <1>1
  <2> QED BY <1>6, <1>7, <2>1
<1>9. Is(held)
  BY <1>8
<1>10. held[L] \in V
  <2> HIDE DEF held, L
  <2>1. \A k \in 0..L : held[k] = IF k = 0 THEN systems ELSE Then(held[k - 1], k)
    BY <1>9, Zenon
  <2>2. held[0] = systems /\ \A k \in 1..L : held[k] = Then(held[k - 1], k)
    BY <1>1, <2>1
  <2>3. held[0] \in V /\ \A k \in 1..L : held[k - 1] \in V => held[k] \in V
    BY <1>2, <1>3, <2>2
  <2>4. \A k \in 0..L : held[k] \in V
    BY ZenonT(40), <1>1, <2>3, AllValues
  <2> QED BY <1>1, <2>4
<1> QED BY <1>4, <1>10 DEF V

\* A summary is never empty.
LEMMA SummaryIs ==
    ASSUME NEW messages \in Seq(Rules!Messages), NEW gone, NEW out
    PROVE  Rules!SummarySize(messages, gone, out) \in Nat /\ Rules!SummarySize(messages, gone, out) > 0
<1> DEFINE lines == [i \in DOMAIN messages |-> Rules!Least(messages[i].size, LineSize)]
           line(i) == \/ i \in gone /\ Rules!Cardinality({j \in gone : j > i}) < MaxLines
                      \/ i \in out /\ Rules!Cardinality(gone) + Rules!Cardinality({j \in out : j < i}) < MaxLines
           places == {i \in gone \union out : line(i)}
<1>1. Heading \in Nat /\ Heading > 0 /\ LineSize \in Nat
  BY RuleBounds
<1>2. \A m \in Rules!Messages : m.size \in Nat
  <2>1. Sizes \subseteq Nat
    BY RulesAssumed DEF Rules!RulesAssumption
  <2> QED BY <2>1 DEF Rules!Messages
<1>3. \A i \in 1..Len(messages) : Rules!Least(messages[i].size, LineSize) \in Nat
  <2>1. \A i \in 1..Len(messages) : messages[i] \in Rules!Messages
    OBVIOUS
  <2> QED BY <1>1, <1>2, <2>1 DEF Rules!Least
<1>4. lines \in Seq(Nat)
  BY <1>3
<1>5. Rules!SummarySize(messages, gone, out) = Heading + Rules!Weight(lines, places)
  BY DEF Rules!SummarySize
<1> HIDE DEF lines, places
<1>6. Rules!Weight(lines, places) \in Nat
  BY <1>4, WeightGrows
<1> QED BY <1>1, <1>5, <1>6

\* What is sent of a conversation fits, and is all that was said, nothing of
\* it, or comes with a summary.
LEMMA SentFits ==
    ASSUME NEW messages \in Seq(Rules!Messages), NEW budget \in Nat
    PROVE  LET sent == Rules!Fit(messages, budget)
               spoken == Rules!Others(messages)
           IN  /\ Rules!Weight(Rules!SizesOf(messages), sent.places) + sent.summary <= budget
               /\ spoken \subseteq sent.places \/ spoken \cap sent.places = {} \/ sent.summary > 0
<1> DEFINE sizes == Rules!SizesOf(messages)
           systems == Rules!KeptSystem(messages, budget)
           held == Rules!Kept(messages, systems, budget)
           spoken == Rules!Others(messages)
           out == spoken \ held
           gone(i) == {j \in held \ systems : j < i}
           summary(i) == Rules!SummarySize(messages, gone(i), out)
           fits(i) == Rules!Weight(sizes, held) + summary(i) <= budget
           ends == {i \in 1..(Len(messages) + 1) : fits(i) \/ gone(i) = held \ systems}
           first == Rules!Min(ends)
           sent == Rules!Fit(messages, budget)
<1>1. sizes \in Seq(Nat) /\ DOMAIN messages = 1..Len(messages) /\ Len(messages) \in Nat
  BY SizesAre
<1>2. systems \subseteq DOMAIN messages /\ systems \cap spoken = {}
  BY DEF Rules!KeptSystem, Rules!Systems, Rules!Others
<1>3. Rules!Weight(sizes, systems) <= budget
  BY SystemsFit
<1>4. systems \subseteq held /\ held \subseteq DOMAIN messages /\ Rules!Weight(sizes, held) <= budget
  <2> HIDE DEF systems
  <2> QED BY <1>2, <1>3, KeptFits
<1>5. spoken \subseteq DOMAIN messages
  BY DEF Rules!Others
<1>6. \A set : Rules!Weight(sizes, set) \in Nat
  <2> HIDE DEF sizes
  <2> QED BY <1>1, WeightGrows
<1>7. \A few, many : few \subseteq many => Rules!Weight(sizes, few) <= Rules!Weight(sizes, many)
  <2>1. ASSUME NEW few, NEW many, few \subseteq many PROVE Rules!Weight(sizes, few) <= Rules!Weight(sizes, many)
    <3>1. \A n \in 1..Len(sizes) : n \in few => n \in many
      BY <2>1
    <3> HIDE DEF sizes
    <3> QED BY <1>1, <3>1, WeightGrows
  <2> QED BY <2>1
<1>8. first \in ends
  <2>1. Len(messages) + 1 \in ends
    <3>1. gone(Len(messages) + 1) = held \ systems
      BY <1>1, <1>4
    <3> QED BY <1>1, <3>1
  <2>2. ends \in SUBSET Nat
    BY <1>1
  <2> HIDE DEF ends
  <2>3. PICK x \in ends : \A y \in ends : x <= y
    BY <2>1, <2>2, Least
  <2> QED BY <2>3 DEF Rules!Min
<1>9. \A i : summary(i) \in Nat /\ summary(i) > 0
  BY SummaryIs
<1>10. SUFFICES /\ Rules!Weight(sizes, sent.places) + sent.summary <= budget
                /\ spoken \subseteq sent.places \/ spoken \cap sent.places = {} \/ sent.summary > 0
  OBVIOUS
<1> DEFINE total == Rules!Weight(sizes, DOMAIN messages)
<1>11. total <= budget <=> ~(total > budget)
  <2>1. total \in Nat
    BY <1>6
  <2> HIDE DEF total
  <2> QED BY <2>1
<1>12. CASE total <= budget
  <2>1. sent = [places |-> DOMAIN messages, summary |-> 0]
    BY <1>11, <1>12 DEF Rules!Fit
  <2>2. sent.places = DOMAIN messages /\ sent.summary = 0
    BY <2>1
  <2> HIDE DEF sizes, sent, spoken
  <2> QED BY <1>5, <1>6, <1>12, <2>2
<1>13. CASE ~(total <= budget) /\ out = {}
  <2>1. sent = [places |-> held, summary |-> 0]
    BY <1>11, <1>13 DEF Rules!Fit
  <2>2. sent.places = held /\ sent.summary = 0 /\ spoken \subseteq held
    BY <1>13, <2>1
  <2> HIDE DEF sizes, sent, held, spoken
  <2> QED BY <1>4, <1>6, <2>2
<1>14. CASE ~(total <= budget) /\ out # {}
  <2>1. sent = [places |-> held \ gone(first), summary |-> IF fits(first) THEN summary(first) ELSE 0]
    BY <1>11, <1>14 DEF Rules!Fit
  <2> DEFINE left == held \ gone(first)
  <2>2. CASE fits(first)
    <3>1. sent.places = left /\ sent.summary = summary(first)
      BY <2>1, <2>2
    <3>2. Rules!Weight(sizes, left) <= Rules!Weight(sizes, held)
      BY <1>7
    <3> DEFINE size == summary(first)
               weight == Rules!Weight(sizes, left)
               before == Rules!Weight(sizes, held)
    <3>3. size \in Nat /\ size > 0 /\ weight \in Nat /\ before \in Nat
      BY <1>6, <1>9
    <3>4. before + size <= budget
      BY <2>2
    <3> HIDE DEF size, weight, before
    <3>5. weight + size <= budget
      BY <3>2, <3>3, <3>4 DEF weight, before
    <3>6. Rules!Weight(sizes, sent.places) = weight /\ sent.summary = size
      BY <3>1 DEF weight, size
    <3> HIDE DEF sizes, sent, spoken, left
    <3> QED BY <3>3, <3>5, <3>6
  <2>3. CASE ~fits(first)
    <3>1. gone(first) = held \ systems
      BY <1>8, <2>3
    <3>2. held \ gone(first) = systems
      BY <1>4, <3>1
    <3>3. sent.places = held \ gone(first) /\ sent.summary = 0
      <4> HIDE DEF fits, first, gone, held, sent
      <4> QED BY <2>1, <2>3
    <3>4. sent.places = systems /\ sent.summary = 0
      BY <3>2, <3>3
    <3> HIDE DEF sizes, sent, systems, spoken
    <3>5. Rules!Weight(sizes, sent.places) + sent.summary <= budget
      BY <1>3, <1>6, <3>4
    <3> QED BY <1>2, <3>4, <3>5
  <2> QED BY <2>2, <2>3
<1> QED BY <1>12, <1>13, <1>14

\* The chunks of a prompt: one when one is found, more only in budget.
LEMMA ChunksFit ==
    ASSUME NEW sizes \in Seq(Nat), NEW budget \in Nat
    PROVE  LET n == Rules!Included(sizes, budget)
           IN  /\ n = 0 => sizes = <<>>
               /\ n > 1 => Rules!Weight(sizes, 1..n) <= budget
<1> DEFINE fit == {n \in 0..Len(sizes) : \A k \in 2..n : Rules!Weight(sizes, 1..k) <= budget}
           n == Rules!Included(sizes, budget)
<1>1. Len(sizes) \in Nat /\ 0 \in fit
  OBVIOUS
<1>2. n \in fit /\ \A k \in fit : k <= n
  <2>1. fit \in SUBSET (0..Len(sizes))
    OBVIOUS
  <2>2. n = Rules!Max(fit)
    BY DEF Rules!Included
  <2> HIDE DEF fit, n
  <2>3. PICK x \in fit : \A y \in fit : y <= x
    BY <1>1, <2>1, Greatest
  <2>4. \A x1, y1 \in fit : y1 <= x1 <=> x1 >= y1
    BY <2>1
  <2> QED BY <2>2, <2>3, <2>4 DEF Rules!Max
<1>3. n > 1 => Rules!Weight(sizes, 1..n) <= budget
  <2>1. n > 1 => n \in 2..n
    BY <1>2
  <2>2. \A k \in 2..n : Rules!Weight(sizes, 1..k) <= budget
    BY <1>2
  <2> HIDE DEF n
  <2> QED BY <2>1, <2>2
<1>4. ASSUME n = 0 PROVE sizes = <<>>
  <2>1. Len(sizes) >= 1 => 1 \in fit
    OBVIOUS
  <2> HIDE DEF n, fit
  <2>2. ~(Len(sizes) >= 1)
    BY <1>2, <1>4, <2>1
  <2> QED BY <1>1, <2>2
<1> HIDE DEF n
<1> QED BY <1>3, <1>4 DEF n

\* The new words of a story are numbers of words, no more than asked for.
LEMMA NewWords ==
    ASSUME NEW count \in Nat \ {0}, NEW first \in BOOLEAN
    PROVE  Rules!NewCount(count, first) \in Nat \ {0} /\ Rules!NewCount(count, first) <= count
<1> DEFINE tenths == 3 * count
           rounded == IF tenths % 10 > 5 \/ (tenths % 10 = 5 /\ ~((tenths \div 10) % 2 = 0))
                      THEN tenths \div 10 + 1 ELSE tenths \div 10
<1>1. rounded \in Nat /\ (rounded > 0 => rounded <= count)
  <2>1. tenths \div 10 \in Nat /\ (tenths \div 10 + 1 <= count \/ tenths < 10)
    OBVIOUS
  <2> QED BY <2>1
<1>2. CASE first
  BY <1>2 DEF Rules!NewCount
<1>3. CASE ~first /\ rounded = 0
  <2>1. Rules!NewCount(count, first) = 1
    BY <1>3 DEF Rules!NewCount
  <2> QED BY <2>1
<1>4. CASE ~first /\ rounded > 0
  <2>1. Rules!NewCount(count, first) = rounded
    BY <1>4 DEF Rules!NewCount
  <2> HIDE DEF rounded
  <2> QED BY <1>1, <1>4, <2>1
<1>5. rounded = 0 \/ rounded > 0
  <2> HIDE DEF rounded
  <2> QED BY <1>1
<1> QED BY <1>2, <1>3, <1>4, <1>5

\* The picked words are as many as asked for, or all there are.
LEMMA PickedWords ==
    ASSUME NEW size \in Nat, NEW count \in Nat \ {0}
    PROVE  LET picked == Rules!Diverse(size, count)
           IN  /\ picked \subseteq 1..size /\ IsFiniteSet(picked)
               /\ Cardinality(picked) = Rules!Least(size, count)
<1> DEFINE picked == Rules!Diverse(size, count)
           step == IF size \div count > 1 THEN size \div count ELSE 1
<1>1. CASE size <= count
  <2>1. picked = 1..size
    BY <1>1 DEF Rules!Diverse
  <2>2. IsFiniteSet(1..size) /\ Cardinality(1..size) = size
    BY FS_Interval
  <2>3. Rules!Least(size, count) = size
    BY <1>1 DEF Rules!Least
  <2> HIDE DEF picked
  <2> QED BY <2>1, <2>2, <2>3 DEF picked
<1>2. CASE size > count
  <2>1. picked = {Rules!Least(i * step + 1, size) : i \in 0..(count - 1)}
    BY <1>2 DEF Rules!Diverse
  <2>2. step \in Nat \ {0} /\ count * step <= size
    BY <1>2
  <2> HIDE DEF step, picked
  <2>3. \A i \in 0..(count - 1) : i * step + 1 <= size /\ i * step \in Nat
    <3>1. SUFFICES ASSUME NEW i \in 0..(count - 1) PROVE i * step + 1 <= size /\ i * step \in Nat
      OBVIOUS
    <3>2. (i + 1) * step <= count * step
      BY <2>2
    <3>3. (i + 1) * step = i * step + step /\ i * step \in Nat
      BY <2>2
    <3>4. count * step \in Nat
      BY <2>2
    <3> QED BY <2>2, <3>2, <3>3, <3>4
  <2>4. \A i \in 0..(count - 1) : Rules!Least(i * step + 1, size) = i * step + 1
    BY <2>3 DEF Rules!Least
  <2> DEFINE word == [i \in 0..(count - 1) |-> i * step + 1]
  <2>5. picked = {word[i] : i \in 0..(count - 1)}
    BY <2>1, <2>4
  <2>6. \A i, j \in 0..(count - 1) : word[i] = word[j] => i = j
    <3>1. SUFFICES ASSUME NEW i \in 0..(count - 1), NEW j \in 0..(count - 1), i < j PROVE word[i] # word[j]
      OBVIOUS
    <3>2. (i + 1) * step <= j * step
      BY <2>2, <3>1
    <3>3. (i + 1) * step = i * step + step /\ i * step \in Nat /\ j * step \in Nat
      BY <2>2
    <3> QED BY <2>2, <3>2, <3>3
  <2>7. picked \subseteq 1..size
    BY <2>3, <2>5
  <2> HIDE DEF word
  <2>8. word \in Bijection(0..(count - 1), picked)
    <3>1. word \in [0..(count - 1) -> picked]
      BY <2>5 DEF word
    <3>2. word \in Injection(0..(count - 1), picked)
      BY <2>6, <3>1 DEF Injection, IsInjective
    <3>3. word \in Surjection(0..(count - 1), picked)
      BY <2>5, <3>1 DEF Surjection
    <3> QED BY <3>2, <3>3 DEF Bijection
  <2>9. IsFiniteSet(0..(count - 1)) /\ Cardinality(0..(count - 1)) = count
    BY FS_Interval
  <2>10. IsFiniteSet(picked) /\ Cardinality(picked) = count
    BY <2>8, <2>9, FS_Bijection DEF ExistsBijection
  <2>11. Rules!Least(size, count) = count
    BY <1>2 DEF Rules!Least
  <2> QED BY <2>7, <2>10, <2>11 DEF picked
<1> QED BY <1>1, <1>2

\* The cardinalities of the rules are those of the library.
LEMMA RulesCount == \A S : Rules!Cardinality(S) = Cardinality(S)
  BY DEF Rules!Cardinality, Cardinality, Rules!IsFiniteSet, IsFiniteSet

\* The words of a story are as many as asked for, or fewer.
LEMMA StoryFits ==
    ASSUME NEW size \in Nat, NEW earlier \in Nat, NEW count \in Nat \ {0}, NEW first \in BOOLEAN
    PROVE  LET story == Rules!StoryWords(size, earlier, count, first)
               new == Rules!Cardinality(story.picked)
           IN  /\ new = Rules!Least(size, Rules!NewCount(count, first))
               /\ story.picked \subseteq 1..size
               /\ new + story.again + story.more <= count
<1> DEFINE wanted == Rules!NewCount(count, first)
           picked == Rules!Diverse(size, wanted)
           review == count - Rules!Least(wanted, count)
           again == Rules!Least(earlier, review)
           other == Rules!Cardinality(1..size \ picked)
           story == Rules!StoryWords(size, earlier, count, first)
<1>1. wanted \in Nat \ {0} /\ wanted <= count
  BY NewWords
<1>2. picked \subseteq 1..size /\ Rules!Cardinality(picked) = Rules!Least(size, wanted)
  <2> HIDE DEF wanted
  <2> QED BY <1>1, PickedWords, RulesCount
<1>3. other \in Nat
  <2>1. IsFiniteSet(1..size)
    BY FS_Interval
  <2> HIDE DEF picked
  <2>2. IsFiniteSet(1..size \ picked)
    BY <2>1, FS_Difference
  <2> QED BY <2>2, FS_CardinalityType, RulesCount
<1>4. story = [picked |-> picked, again |-> again, more |-> Rules!Least(review - again, other)]
  BY DEF Rules!StoryWords
<1> HIDE DEF wanted, picked, other, story
<1>5. Rules!Least(size, wanted) + again + Rules!Least(review - again, other) <= count
  BY <1>1, <1>3 DEF Rules!Least
<1> QED BY <1>2, <1>4, <1>5 DEF story, wanted

\* A quiz has questions when there are words, no more than asked for, and
\* what is cached was written by a model.
LEMMA QuizFits ==
    ASSUME NEW in \in Rules!Quizzes
    PROVE  LET quiz == Rules!Quiz(in)
           IN  /\ in.words > 0 => quiz.size > 0
               /\ quiz.size <= in.count
               /\ quiz.stores > 0 => quiz.source = "llm" /\ in.cached \in {0, None}
<1> DEFINE quiz == Rules!Quiz(in)
           written == IF in.model THEN Rules!Least(in.written, in.count) ELSE 0
           short == Len(Rules!Template(in.words, in.count))
           hit == in.model /\ in.cached \notin {0, None}
<1>1. /\ in.model \in BOOLEAN /\ in.written \in Nat /\ in.words \in Nat /\ in.count \in Nat \ {0}
      /\ in.cached \in 0..in.count \union {None}
  <2>1. MaxCount \in Nat /\ MaxWords \in Nat
    BY RuleBounds
  <2> QED BY <2>1 DEF Rules!Quizzes
<1>2. short = Rules!Least(in.count, in.words)
  <2>1. in.count > 0 /\ Rules!Least(in.count, in.words) \in Nat
    BY <1>1 DEF Rules!Least
  <2> DEFINE n == Rules!Least(in.count, in.words)
  <2>2. Rules!Template(in.words, in.count) = [i \in 1..n |-> [word |-> i, wrong |-> Rules!Least(3, in.words - 1)]]
    BY <2>1 DEF Rules!Template
  <2> HIDE DEF n
  <2>3. n \in Nat
    BY <2>1 DEF n
  <2>4. short = n
    BY <2>2, <2>3
  <2> QED BY <2>4 DEF n
<1>3. written \in Nat /\ written <= in.count
  BY <1>1 DEF Rules!Least
<1>4. CASE hit
  <2>1. quiz = [source |-> "llm", size |-> in.cached, stores |-> 0]
    BY <1>4 DEF Rules!Quiz
  <2> HIDE DEF quiz
  <2> QED BY <1>1, <1>4, <2>1 DEF quiz
<1>5. CASE ~hit /\ written > 0
  <2>1. quiz = [source |-> "llm", size |-> written, stores |-> written]
    BY <1>5 DEF Rules!Quiz
  <2>2. in.model
    BY <1>5
  <2> HIDE DEF quiz, written
  <2> QED BY <1>1, <1>3, <1>5, <2>1, <2>2 DEF quiz
<1>6. CASE ~hit /\ written = 0
  <2>1. quiz = [source |-> "template", size |-> short, stores |-> 0]
    BY <1>6 DEF Rules!Quiz
  <2> HIDE DEF quiz, short
  <2> QED BY <1>1, <1>2, <2>1 DEF quiz, Rules!Least
<1>7. written > 0 \/ written = 0
  <2> HIDE DEF written
  <2> QED BY <1>3
<1> QED BY <1>4, <1>5, <1>6, <1>7

\* An id that gets a number is new.
LEMMA NumberedIsNew ==
    ASSUME NEW id \in Seq(Nat), NEW taken, IsFiniteSet(taken)
    PROVE  Rules!Numbered(id, taken) \in Seq(Nat) /\ Rules!Numbered(id, taken) \notin taken
<1> DEFINE c == Rules!Cardinality(taken)
           free == {k \in 2..(c + 2) : Append(id, k) \notin taken}
           with == [k \in 2..(c + 2) |-> Append(id, k)]
<1>1. c \in Nat /\ c = Cardinality(taken)
  BY RulesCount, FS_CardinalityType
<1> HIDE DEF c
<1>2. free # {}
  <2>1. SUFFICES ASSUME free = {} PROVE FALSE
    OBVIOUS
  <2>2. with \in [2..(c + 2) -> taken]
    BY <2>1
  <2>3. IsFiniteSet(2..(c + 2)) /\ Cardinality(2..(c + 2)) = c + 1
    <3>1. ASSUME NEW m \in Nat, m > 1
          PROVE  IsFiniteSet(2..m) /\ Cardinality(2..m) = m - 1
      BY <3>1, FS_Interval
    <3>2. PICK m \in Nat : m = c + 2 /\ m > 1 /\ m - 1 = c + 1
      BY <1>1
    <3>3. IsFiniteSet(2..m) /\ Cardinality(2..m) = m - 1
      BY <3>1, <3>2
    <3> QED BY <3>2, <3>3
  <2>4. \A i, j \in 2..(c + 2) : with[i] = with[j] => i = j
    <3>1. \A k \in 2..(c + 2) : with[k][Len(id) + 1] = k
      BY <1>1
    <3> HIDE DEF with
    <3> QED BY <3>1
  <2> HIDE DEF with
  <2>5. Cardinality(taken) < Cardinality(2..(c + 2))
    BY <1>1, <2>3
  <2>6. \E i, j \in 2..(c + 2) : i # j /\ with[i] = with[j]
    BY <2>2, <2>3, <2>5, FS_PigeonHole
  <2> QED BY <2>4, <2>6
<1>3. Rules!Min(free) \in free
  <2>1. free \in SUBSET Nat
    BY <1>1
  <2> HIDE DEF free
  <2>2. PICK x \in free : \A y \in free : x <= y
    BY <1>2, <2>1, Least
  <2> QED BY <2>2 DEF Rules!Min
<1>4. CASE id \notin taken
  BY <1>4 DEF Rules!Numbered
<1>5. CASE id \in taken
  <2>1. Rules!Numbered(id, taken) = Append(id, Rules!Min(free))
    BY <1>5 DEF Rules!Numbered, c
  <2>2. Rules!Min(free) \in Nat /\ Append(id, Rules!Min(free)) \notin taken
    BY <1>1, <1>3
  <2> HIDE DEF free
  <2> QED BY <2>1, <2>2
<1> QED BY <1>4, <1>5

\* The numbers up to one are finitely many, and so are their values.
LEMMA ValuesAreFinite == \A n \in Nat : \A v : IsFiniteSet({v[j] : j \in 1..n})
<1> SUFFICES ASSUME NEW n \in Nat, NEW v PROVE IsFiniteSet({v[j] : j \in 1..n})
  OBVIOUS
<1> DEFINE values == {v[j] : j \in 1..n}
           f == [j \in 1..n |-> v[j]]
<1>1. IsFiniteSet(1..n)
  BY FS_Interval
<1>2. f \in Surjection(1..n, values)
  BY DEF Surjection
<1> HIDE DEF f, values
<1>3. IsFiniteSet(values)
  BY <1>1, <1>2, FS_Surjection
<1> QED BY <1>3 DEF values

\* The ids of a card are distinct, one for each question.
LEMMA IdsAreDistinct ==
    ASSUME NEW questions, NEW n \in Nat, \A i \in 1..n : questions[i].id \in Seq(Nat)
    PROVE  LET ids == Rules!CardIds(questions, n)
           IN  Len(ids) = n /\ \A i, j \in 1..n : i # j => ids[i] # ids[j]
<1> DEFINE wanted(i) == IF questions[i].id = <<>> THEN <<i>> ELSE questions[i].id
           New(v, i) == Rules!Numbered(wanted(i), {v[j] : j \in 1..(i - 1)})
           Then(v, i) == Append(v, New(v, i))
           V == Seq(Seq(Nat))
           Is(f) == f = [i \in 0..n |-> IF i = 0 THEN <<>> ELSE Then(f[i - 1], i)]
           ids == CHOOSE f : Is(f)
           next == [i \in 1..n |-> [v \in V |-> Then(v, i)]]
<1>1. \A i \in 1..n : \A v : New(v, i) \in Seq(Nat) /\ New(v, i) \notin {v[j] : j \in 1..(i - 1)}
  <2>1. SUFFICES ASSUME NEW i \in 1..n, NEW v
                 PROVE  New(v, i) \in Seq(Nat) /\ New(v, i) \notin {v[j] : j \in 1..(i - 1)}
    OBVIOUS
  <2>2. wanted(i) \in Seq(Nat)
    OBVIOUS
  <2>3. IsFiniteSet({v[j] : j \in 1..(i - 1)})
    <3>1. i - 1 \in Nat
      OBVIOUS
    <3> QED BY <3>1, ValuesAreFinite
  <2> HIDE DEF wanted
  <2> QED BY <2>2, <2>3, NumberedIsNew
<1>2. ids[n] = Rules!CardIds(questions, n)
  BY DEF Rules!CardIds
<1> HIDE DEF New
<1>3. \A i \in 1..n : \A v \in V : Then(v, i) \in V
  <2>1. SUFFICES ASSUME NEW i \in 1..n, NEW v \in Seq(Seq(Nat)) PROVE Append(v, New(v, i)) \in Seq(Seq(Nat))
    OBVIOUS
  <2>2. New(v, i) \in Seq(Nat)
    BY <1>1
  <2> QED BY <2>2
<1>4. <<>> \in V
  OBVIOUS
<1> HIDE DEF Then, V
<1>5. next \in [1..n -> [V -> V]]
  BY <1>3
<1>6. PICK f \in [0..n -> V] : f[0] = <<>> /\ \A i \in 1..n : f[i] = next[i][f[i - 1]]
  <2> HIDE DEF next
  <2> DEFINE Rec(W) == \A first \in W : \A step \in [1..n -> [W -> W]] :
           \E f \in [0..n -> W] : f[0] = first /\ \A i \in 1..n : f[i] = step[i][f[i - 1]]
  <2>1. \A W : Rec(W)
    BY Recursion
  <2> HIDE DEF Rec
  <2>2. Rec(V)
    BY <2>1
  <2> QED BY <1>4, <1>5, <2>2 DEF Rec
<1>7. \A i \in 1..n : f[i] = Then(f[i - 1], i)
  <2>1. ASSUME NEW i \in 1..n PROVE f[i] = Then(f[i - 1], i)
    <3>1. f[i - 1] \in V
      BY <2>1
    <3> QED BY <1>6, <3>1
  <2> QED BY <2>1
<1>8. Is(f)
  <2>1. \A i \in 0..n : i # 0 => i \in 1..n
    OBVIOUS
  <2> QED BY <1>6, <1>7, <2>1
<1>9. Is(ids)
  BY <1>8
<1>10. ids[0] = <<>> /\ \A i \in 1..n : ids[i] = Then(ids[i - 1], i)
  <2> HIDE DEF ids
  <2>1. \A i \in 0..n : ids[i] = IF i = 0 THEN <<>> ELSE Then(ids[i - 1], i)
    BY <1>9, Zenon
  <2> QED BY <2>1
<1> HIDE DEF ids
<1> DEFINE Distinct(v, i) == v \in V /\ Len(v) = i /\ \A j, k \in 1..i : j # k => v[j] # v[k]
           good == [i \in 0..n |-> Distinct(ids[i], i)]
<1>11. Distinct(ids[0], 0)
  BY <1>4, <1>10
<1>12. ASSUME NEW i \in 1..n, Distinct(ids[i - 1], i - 1) PROVE Distinct(ids[i], i)
  <2> DEFINE v == ids[i - 1]
  <2>1. ids[i] = Append(v, New(v, i)) /\ v \in Seq(Seq(Nat)) /\ Len(v) = i - 1
    BY <1>10, <1>12 DEF Then, V
  <2>2. New(v, i) \in Seq(Nat) /\ \A j \in 1..(i - 1) : v[j] # New(v, i)
    BY <1>1, <2>1
  <2>3. \A j, k \in 1..(i - 1) : j # k => v[j] # v[k]
    BY <1>12
  <2> HIDE DEF v
  <2>4. ids[i] \in Seq(Seq(Nat)) /\ Len(ids[i]) = i /\ ids[i][i] = New(v, i)
        /\ \A j \in 1..(i - 1) : ids[i][j] = v[j]
    BY <2>1, <2>2
  <2>5. ASSUME NEW j \in 1..i, NEW k \in 1..i, j # k PROVE ids[i][j] # ids[i][k]
    <3>1. j \in 1..(i - 1) \/ j = i
      OBVIOUS
    <3>2. k \in 1..(i - 1) \/ k = i
      OBVIOUS
    <3> QED BY <2>2, <2>3, <2>4, <2>5, <3>1, <3>2
  <2> QED BY <2>4, <2>5 DEF V
<1> HIDE DEF Distinct
<1>13. good[0] \in {TRUE} /\ \A i \in 1..n : good[i - 1] \in {TRUE} => good[i] \in {TRUE}
  <2>1. \A i \in 1..n : i - 1 \in 0..n /\ i \in 0..n
    OBVIOUS
  <2>2. \A i \in 0..n : good[i] = Distinct(ids[i], i)
    OBVIOUS
  <2>3. 0 \in 0..n
    OBVIOUS
  <2>4. \A i \in 0..n : Distinct(ids[i], i) \in BOOLEAN
    BY DEF Distinct
  <2> HIDE DEF good
  <2> QED BY <1>11, <1>12, <2>1, <2>2, <2>3, <2>4
<1>14. \A i \in 0..n : good[i] \in {TRUE}
  <2> HIDE DEF good
  <2> QED BY <1>13, AllValues, ZenonT(40)
<1>15. Distinct(ids[n], n)
  <2>1. n \in 0..n
    OBVIOUS
  <2>2. good[n] = TRUE
    BY <1>14, <2>1
  <2> QED BY <2>1, <2>2
<1> QED BY <1>2, <1>15 DEF Distinct

\* The options of a card are distinct, within their number, and none repeats
\* the free answer.
LEMMA OptionsAreClear ==
    ASSUME NEW S, NEW q, q.options \in Seq(S), q.free \in BOOLEAN
    PROVE  LET labels == Rules!CardOptions(q)
           IN  /\ Cardinality(DOMAIN labels) <= MaxOptions
               /\ \A j, k \in DOMAIN labels : j # k => labels[j] # labels[k]
               /\ q.free => \A j \in DOMAIN labels : labels[j] # FreeLabel
<1> DEFINE L == Len(q.options)
           Usable(i) == q.options[i] # Rules!NoLabel /\ ~(q.free /\ q.options[i] = FreeLabel)
           Then(v, i) == IF /\ Usable(i) /\ Rules!Cardinality(v) < MaxOptions
                            /\ \A j \in v : q.options[j] # q.options[i]
                         THEN v \union {i} ELSE v
           V == {v \in SUBSET (1..L) :
                    /\ IsFiniteSet(v) /\ Cardinality(v) <= MaxOptions
                    /\ \A j, k \in v : j # k => q.options[j] # q.options[k]
                    /\ \A j \in v : Usable(j)}
           Is(f) == f = [i \in 0..L |-> IF i = 0 THEN {} ELSE Then(f[i - 1], i)]
           cleaned == CHOOSE f : Is(f)
           next == [i \in 1..L |-> [v \in V |-> Then(v, i)]]
<1>1. L \in Nat /\ MaxOptions \in Nat
  BY RuleBounds
<1>2. Rules!CardOptions(q) = [i \in cleaned[L] |-> q.options[i]]
  BY DEF Rules!CardOptions
<1>3. {} \in V
  BY <1>1, FS_EmptySet
<1> HIDE DEF Usable, L
<1>4. \A i \in 1..L : \A v \in V : Then(v, i) \in V
  <2>1. SUFFICES ASSUME NEW i \in 1..L, NEW v \in V,
                        Usable(i), Cardinality(v) < MaxOptions, \A j \in v : q.options[j] # q.options[i]
                 PROVE  v \union {i} \in V
    BY RulesCount
  <2>2. IsFiniteSet(v \union {i}) /\ Cardinality(v \union {i}) <= Cardinality(v) + 1 /\ Cardinality(v) \in Nat
    <3>1. IsFiniteSet(v) /\ Cardinality(v) \in Nat
      BY FS_CardinalityType
    <3> HIDE DEF V
    <3>2. IsFiniteSet(v \union {i}) /\ Cardinality(v \union {i}) \in {Cardinality(v), Cardinality(v) + 1}
      BY <3>1, FS_AddElement
    <3> QED BY <3>1, <3>2
  <2>3. Cardinality(v \union {i}) \in Nat
    BY <2>2, FS_CardinalityType
  <2>4. Cardinality(v \union {i}) <= MaxOptions
    BY <1>1, <2>1, <2>2, <2>3
  <2>5. \A j, k \in v \union {i} : j # k => q.options[j] # q.options[k]
    BY <2>1
  <2> QED BY <2>1, <2>2, <2>4, <2>5
<1> HIDE DEF Then, V
<1>5. next \in [1..L -> [V -> V]]
  BY <1>4
<1>6. PICK f \in [0..L -> V] : f[0] = {} /\ \A i \in 1..L : f[i] = next[i][f[i - 1]]
  <2> HIDE DEF next
  <2> DEFINE Rec(W) == \A first \in W : \A step \in [1..L -> [W -> W]] :
           \E f \in [0..L -> W] : f[0] = first /\ \A i \in 1..L : f[i] = step[i][f[i - 1]]
  <2>1. \A W : Rec(W)
    BY <1>1, Recursion
  <2> HIDE DEF Rec
  <2>2. Rec(V)
    BY <2>1
  <2> QED BY <1>3, <1>5, <2>2 DEF Rec
<1>7. \A i \in 1..L : f[i] = Then(f[i - 1], i)
  <2>1. ASSUME NEW i \in 1..L PROVE f[i] = Then(f[i - 1], i)
    <3>1. f[i - 1] \in V
      BY <1>1, <2>1
    <3> QED BY <1>6, <3>1
  <2> QED BY <2>1
<1>8. Is(f)
  <2>1. \A i \in 0..L : i # 0 => i \in 1..L
    BY <1>1
  <2> QED BY <1>6, <1>7, <2>1
<1>9. Is(cleaned)
  BY <1>8
<1>10. cleaned[L] \in V
  <2> HIDE DEF cleaned
  <2>1. \A i \in 0..L : cleaned[i] = IF i = 0 THEN {} ELSE Then(cleaned[i - 1], i)
    BY <1>9, Zenon
  <2>2. cleaned[0] = {} /\ \A i \in 1..L : cleaned[i] = Then(cleaned[i - 1], i)
    BY <1>1, <2>1
  <2>3. cleaned[0] \in V /\ \A i \in 1..L : cleaned[i - 1] \in V => cleaned[i] \in V
    BY <1>3, <1>4, <2>2
  <2>4. \A i \in 0..L : cleaned[i] \in V
    BY ZenonT(40), <1>1, <2>3, AllValues
  <2> QED BY <1>1, <2>4
<1> HIDE DEF cleaned
<1> QED BY <1>2, <1>10 DEF V, Usable

\* A card is clear: ids and options distinct and within the limits.
LEMMA CardFits ==
    ASSUME NEW S, NEW questions, Len(questions) \in Nat,
           \A i \in 1..Len(questions) :
              questions[i].id \in Seq(Nat) /\ questions[i].options \in Seq(S) /\ questions[i].free \in BOOLEAN
    PROVE  LET card == Rules!Card(questions)
           IN  /\ Len(card) <= MaxQuestions
               /\ \A i, j \in DOMAIN card : i # j => card[i].id # card[j].id
               /\ \A i \in DOMAIN card :
                     LET labels == card[i].options
                     IN  /\ Rules!Cardinality(DOMAIN labels) <= MaxOptions
                         /\ \A j, k \in DOMAIN labels : j # k => labels[j] # labels[k]
                         /\ card[i].free => \A j \in DOMAIN labels : labels[j] # FreeLabel
<1> DEFINE wanted == Rules!Least(MaxQuestions, Len(questions))
           ids == Rules!CardIds(questions, wanted)
           card == Rules!Card(questions)
           Clear(labels, free) == /\ Rules!Cardinality(DOMAIN labels) <= MaxOptions
                                  /\ \A j, k \in DOMAIN labels : j # k => labels[j] # labels[k]
                                  /\ free => \A j \in DOMAIN labels : labels[j] # FreeLabel
<1>1. MaxQuestions \in Nat
  BY RuleBounds
<1>2. wanted \in Nat /\ wanted <= MaxQuestions /\ \A i \in 1..wanted : i \in 1..Len(questions)
  <2>1. \A m, n \in Nat : LET l == Rules!Least(m, n) IN l \in Nat /\ l <= m /\ l <= n
    BY DEF Rules!Least
  <2>2. wanted \in Nat /\ wanted <= MaxQuestions /\ wanted <= Len(questions)
    BY <1>1, <2>1
  <2> HIDE DEF wanted
  <2> QED BY <2>2
<1> HIDE DEF wanted
<1>3. Len(ids) = wanted /\ \A i, j \in 1..wanted : i # j => ids[i] # ids[j]
  BY <1>2, IdsAreDistinct
<1>4. \A i \in 1..wanted : Clear(Rules!CardOptions(questions[i]), questions[i].free)
  BY <1>2, OptionsAreClear, RulesCount
<1> HIDE DEF ids
<1>5. SUFFICES /\ Len(card) <= MaxQuestions
               /\ \A i, j \in DOMAIN card : i # j => card[i].id # card[j].id
               /\ \A i \in DOMAIN card : Clear(card[i].options, card[i].free)
  OBVIOUS
<1> HIDE DEF Clear
<1>6. CASE \E i \in 1..wanted : questions[i].refused
  <2>1. card = <<>>
    BY <1>6 DEF Rules!Card, wanted
  <2> HIDE DEF card
  <2> QED BY <1>1, <2>1
<1>7. CASE ~ \E i \in 1..wanted : questions[i].refused
  <2>1. card = [i \in 1..wanted |-> [id |-> ids[i], options |-> Rules!CardOptions(questions[i]),
                                    free |-> questions[i].free]]
    BY <1>7 DEF Rules!Card, wanted, ids
  <2> HIDE DEF card
  <2>2. Len(card) = wanted /\ DOMAIN card = 1..wanted
    BY <1>2, <2>1
  <2>3. \A i \in 1..wanted : card[i].id = ids[i]
    BY <2>1
  <2>4. \A i \in 1..wanted : card[i].options = Rules!CardOptions(questions[i]) /\ card[i].free = questions[i].free
    BY <2>1
  <2>5. \A i, j \in DOMAIN card : i # j => card[i].id # card[j].id
    BY <1>3, <2>2, <2>3
  <2>6. \A i \in DOMAIN card : Clear(card[i].options, card[i].free)
    BY <1>4, <2>2, <2>4
  <2> QED BY <1>2, <2>2, <2>5, <2>6
<1> QED BY <1>6, <1>7

\* The sequences of an input are sequences.
LEMMA UptoIs == \A set : Rules!Upto(set) \subseteq Seq(set)
  BY DEF Rules!Upto

\* The questions of a card have ids, options and free answers.
LEMMA CardInputs ==
    ASSUME NEW in \in Rules!Cards
    PROVE  /\ Len(in.questions) \in Nat
           /\ \A i \in 1..Len(in.questions) :
                 /\ in.questions[i].id \in Seq(Nat) /\ in.questions[i].options \in Seq(Labels \union {Rules!NoLabel})
                 /\ in.questions[i].free \in BOOLEAN
<1> DEFINE S == Labels \union {Rules!NoLabel}
           Bare == [refused : BOOLEAN, id : Ids, free : {TRUE}, options : {<<>>}]
           Usable == {q \in Bare \union Rules!Questions :
                        q.id \in Seq(Nat) /\ q.options \in Seq(S) /\ q.free \in BOOLEAN}
<1>1. in.questions \in Rules!Upto(Bare) \union [1..1 -> Rules!Questions]
  BY DEF Rules!Cards
<1>2. Ids \subseteq Seq(Nat)
  BY RulesAssumed DEF Rules!RulesAssumption
<1>3. Bare \subseteq Usable
  <2>1. <<>> \in Seq(S)
    OBVIOUS
  <2> HIDE DEF S
  <2> QED BY <1>2, <2>1
<1>4. Rules!Questions \subseteq Usable
  <2>1. Rules!Upto(S) \subseteq Seq(S)
    BY UptoIs
  <2>2. Rules!Questions = [refused : BOOLEAN, id : Ids, free : BOOLEAN, options : Rules!Upto(S)]
    BY DEF Rules!Questions
  <2> HIDE DEF S, Bare
  <2> QED BY <1>2, <2>1, <2>2
<1> HIDE DEF Bare
<1>5. PICK n \in Nat : in.questions \in [1..n -> Usable]
  <2>1. CASE in.questions \in Rules!Upto(Bare)
    <3>1. PICK n \in 0..MaxLength : in.questions \in [1..n -> Bare]
      BY <2>1 DEF Rules!Upto
    <3> HIDE DEF Usable
    <3>2. n \in Nat /\ in.questions \in [1..n -> Usable]
      BY <1>3, <3>1
    <3> QED BY <3>2
  <2>2. CASE in.questions \in [1..1 -> Rules!Questions]
    <3> HIDE DEF Usable
    <3>1. 1 \in Nat /\ in.questions \in [1..1 -> Usable]
      BY <1>4, <2>2
    <3> QED BY <3>1
  <2> QED BY <1>1, <2>1, <2>2
<1>6. Len(in.questions) = n
  <2> HIDE DEF Usable
  <2> QED BY <1>5
<1> QED BY <1>5, <1>6

\* What the rules give for an input is what they are for.
LEMMA RulesGive == Rules!Init => Rules!RulesHold
<1> SUFFICES ASSUME Rules!Init PROVE Rules!RulesHold
  OBVIOUS
<1>1. /\ input.kind = "fit" => input \in Rules!Conversations
      /\ input.kind = "block" => input \in Rules!Blocks
      /\ input.kind = "card" => input \in Rules!Cards
      /\ input.kind = "story" => input \in Rules!Stories
      /\ input.kind = "quiz" => input \in Rules!Quizzes
      /\ input.kind = "answer" => input \in Rules!Answers
  <2>1. /\ input \in Rules!Conversations => input.kind = "fit"
        /\ input \in Rules!Blocks => input.kind = "block"
        /\ input \in Rules!Cards => input.kind = "card"
        /\ input \in Rules!Stories => input.kind = "story"
        /\ input \in Rules!Quizzes => input.kind = "quiz"
        /\ input \in Rules!Answers => input.kind = "answer"
    BY DEF Rules!Conversations, Rules!Blocks, Rules!Cards, Rules!Stories, Rules!Quizzes, Rules!Answers
  <2> QED BY <2>1 DEF Rules!Init
<1>2. Sizes \subseteq Nat /\ Budgets \subseteq Nat /\ Ids \subseteq Seq(Nat)
  BY RulesAssumed DEF Rules!RulesAssumption
<1>3. Rules!ConversationFits
  <2> SUFFICES ASSUME input.kind = "fit"
               PROVE  LET sent == Rules!Fit(input.messages, input.budget)
                          spoken == Rules!Others(input.messages)
                      IN  /\ Rules!Weight(Rules!SizesOf(input.messages), sent.places) + sent.summary <= input.budget
                          /\ spoken \subseteq sent.places \/ spoken \cap sent.places = {} \/ sent.summary > 0
    BY DEF Rules!ConversationFits
  <2>1. input.messages \in Rules!Upto(Rules!Messages) /\ input.budget \in Budgets
    BY <1>1 DEF Rules!Conversations
  <2>2. input.messages \in Seq(Rules!Messages) /\ input.budget \in Nat
    BY <1>2, <2>1, UptoIs
  <2> QED BY <2>2, SentFits
<1>4. Rules!BlockFits
  <2>1. SUFFICES ASSUME input.kind = "block"
                 PROVE  LET n == Rules!Included(input.sizes, input.budget)
                        IN  /\ n = 0 => input.sizes = <<>>
                            /\ n > 1 => Rules!Weight(input.sizes, 1..n) <= input.budget
    BY DEF Rules!BlockFits
  <2>2. input.sizes \in Rules!Upto(Sizes) /\ input.budget \in Budgets
    BY <1>1, <2>1 DEF Rules!Blocks
  <2>3. input.sizes \in Seq(Nat) /\ input.budget \in Nat
    <3>1. PICK n \in 0..MaxLength : input.sizes \in [1..n -> Sizes]
      BY <2>2 DEF Rules!Upto
    <3>2. n \in Nat /\ input.sizes \in [1..n -> Nat]
      <4>1. n \in Nat
        BY <3>1, RuleBounds
      <4>2. \A i \in 1..n : input.sizes[i] \in Nat
        BY <1>2, <3>1
      <4> QED BY <3>1, <4>1, <4>2
    <3>3. input.sizes \in Seq(Nat)
      BY <3>2
    <3> QED BY <1>2, <2>2, <3>3
  <2> QED BY <2>3, ChunksFit
<1>5. Rules!CardIsClear
  <2>1. SUFFICES ASSUME input.kind = "card" PROVE Rules!CardIsClear
    BY DEF Rules!CardIsClear
  <2>2. input \in Rules!Cards
    BY <1>1, <2>1
  <2> DEFINE S == Labels \union {Rules!NoLabel}
  <2>3. /\ Len(input.questions) \in Nat
        /\ \A i \in 1..Len(input.questions) :
              /\ input.questions[i].id \in Seq(Nat) /\ input.questions[i].options \in Seq(S)
              /\ input.questions[i].free \in BOOLEAN
    BY <2>2, CardInputs
  <2> HIDE DEF S
  <2> QED BY <2>3, CardFits DEF Rules!CardIsClear
<1>6. Rules!StoryHasWords
  <2>1. SUFFICES ASSUME input.kind = "story"
                 PROVE  LET story == Rules!StoryWords(input.words, input.earlier, input.count, input.first)
                            new == Rules!Cardinality(story.picked)
                        IN  /\ new = Rules!Least(input.words, Rules!NewCount(input.count, input.first))
                            /\ story.picked \subseteq 1..input.words
                            /\ new + story.again + story.more <= input.count
    BY DEF Rules!StoryHasWords
  <2>2. /\ input.words \in Nat /\ input.earlier \in Nat /\ input.count \in Nat \ {0} /\ input.first \in BOOLEAN
    BY <1>1, <2>1, RuleBounds DEF Rules!Stories
  <2> QED BY <2>2, StoryFits
<1>7. Rules!QuizIsUsable
  <2>1. SUFFICES ASSUME input.kind = "quiz"
                 PROVE  LET quiz == Rules!Quiz(input)
                        IN  /\ input.words > 0 => quiz.size > 0
                            /\ quiz.size <= input.count
                            /\ quiz.stores > 0 => quiz.source = "llm" /\ input.cached \in {0, None}
    BY DEF Rules!QuizIsUsable
  <2> QED BY <1>1, <2>1, QuizFits
<1>8. Rules!MatchIsRight
  BY DEF Rules!MatchIsRight, Rules!Submitted, Rules!JudgedOnly, Rules!Judged, Rules!Compared, Rules!Named, Rules!AsShort
<1> QED BY <1>3, <1>4, <1>5, <1>6, <1>7, <1>8 DEF Rules!RulesHold

\* No step changes the part or the input.
LEMMA InputStays == [ServicesNext]_servicesVars => part' = part /\ input' = input
  BY DEF servicesVars, frontVars, backVars, contentVars, ServicesNext, AccountStep, LimitStep, LockStep, CallStep,
         SettingsStep, RetrievalStep, WordsStep, MemoryStep, ReadingStep, KnowledgeStep

\* What is computed from any input is sound: what is sent of a conversation
\* fits, so do chunks, cards are clear, stories have words, quizzes questions,
\* and answers that match are right, but for blanks that are submitted without
\* a judge (context_guard, rag_context_builder, ask_user_payload,
\* pick_story_words, QuizService).
THEOREM MaterialIsSoundHolds == ServicesSpec => []MaterialIsSound
<1>1. ServicesInit => MaterialIsSound
  BY RulesGive DEF ServicesInit, MaterialIsSound
<1>2. MaterialIsSound /\ [ServicesNext]_servicesVars => MaterialIsSound'
  <2>1. SUFFICES ASSUME MaterialIsSound, part' = part, input' = input PROVE MaterialIsSound'
    BY InputStays
  <2> QED BY <2>1 DEF MaterialIsSound, Rules!RulesHold, Rules!ConversationFits, Rules!BlockFits, Rules!CardIsClear,
                      Rules!StoryHasWords, Rules!QuizIsUsable, Rules!MatchIsRight
<1> QED BY <1>1, <1>2, PTL DEF ServicesSpec, servicesVars

----------------------------------------------------------------------------
\* The invariants of all components at once.
ServicesInv ==
    /\ AccInv /\ RateInv /\ LimitBounds /\ LockInv /\ CallInv /\ CallBounds
    /\ SettingsInv /\ RetInv /\ WordsInv /\ ReadInv /\ KnowInv

\* They hold initially,
LEMMA ServicesInitially == ServicesInit => ServicesInv
<1>1. ServicesInit => /\ Accounts!Init /\ Limiter!Init /\ JobLock!Init /\ Llm!Init /\ Settings!Init
                      /\ Retrieval!Init /\ Dutch!Init /\ Reading!Init
  BY DEF ServicesInit
<1>2. ServicesInit => AccInv /\ RateInv /\ LimitBounds /\ LockInv /\ CallInv /\ CallBounds
  BY <1>1, AccountInvInitially, LimitInvInitially, LimitBoundsInitially, LockInvInitially, CallInvInitially,
     CallBoundsInitially
<1>3. ServicesInit => SettingsInv /\ RetInv /\ WordsInv /\ ReadInv /\ KnowInv
  BY <1>1, SettingsInitially, RetrievalInvInitially, WordInvInitially, ReadInitially, KnowInitially
<1>4. QED
  BY <1>2, <1>3 DEF ServicesInv

\* and every step keeps them.
LEMMA ServicesStay == ServicesInv /\ [ServicesNext]_servicesVars => ServicesInv'
<1> SUFFICES ASSUME ServicesInv, [ServicesNext]_servicesVars PROVE ServicesInv'
  OBVIOUS
<1>1. AccInv' /\ RateInv' /\ LimitBounds' /\ LockInv'
  BY StepOrStutter, AccountInvStep, LimitInvStep, LimitBoundsStep, LockInvStep DEF ServicesInv
<1>2. CallInv' /\ CallBounds' /\ SettingsInv'
  BY StepOrStutter, CallInvStep, CallBoundsStep, SettingsStay DEF ServicesInv
<1>3. RetInv' /\ WordsInv'
  BY StepOrStutter, RetrievalInvStep, WordInvStep DEF ServicesInv
<1>4. ReadInv'
  BY StepOrStutter, ReadingStays DEF ServicesInv, Reading!readingVars, readingVars
<1>5. KnowInv'
  BY StepOrStutter, KnowTypeStep, RevisionsStep, IndexesStep, SearchesStep DEF ServicesInv, KnowInv
<1>6. QED
  BY <1>1, <1>2, <1>3, <1>4, <1>5 DEF ServicesInv

\* The invariant of the retrieval has its types.
LEMMA RetrievalHasType == RetInv => Retrieval!TypeOK
<1> SUFFICES ASSUME RetInv PROVE Retrieval!TypeOK
  OBVIOUS
<1>1. RetrievalTyped
  BY DEF RetInv
<1>2. QED
  BY <1>1 DEF RetrievalTyped, Retrieval!TypeOK, Question

\* Every component's variables keep their types, and its numbers their bounds.
THEOREM ServicesTypes == ServicesSpec => []ServicesTypeOK
<1>1. ServicesInv => /\ Accounts!TypeOK /\ Limiter!TypeOK /\ JobLock!TypeOK /\ Llm!TypeOK /\ Settings!TypeOK
                     /\ Retrieval!TypeOK /\ Dutch!TypeOK /\ Reading!TypeOK /\ Knowledge!TypeOK
  BY CallsTyped, SettingsTyped, RetrievalHasType
  DEF ServicesInv, AccInv, LimitBounds, LockInv, WordsInv, ReadInv, KnowInv
<1>2. ServicesSpec => [](ServicesInv /\ part \in Parts)
  <2>1. ServicesInit => ServicesInv /\ part \in Parts
    BY ServicesInitially DEF ServicesInit
  <2>2. part \in Parts /\ [ServicesNext]_servicesVars => (part \in Parts)'
    BY DEF servicesVars, ServicesNext, AccountStep, LimitStep, LockStep, CallStep, SettingsStep, RetrievalStep,
           WordsStep, MemoryStep, ReadingStep, KnowledgeStep
  <2>3. QED
    BY <2>1, <2>2, ServicesStay, PTL DEF ServicesSpec, servicesVars
<1>3. ServicesInv /\ part \in Parts => ServicesTypeOK
  BY <1>1 DEF Parts, ServicesTypeOK
<1>4. QED
  BY <1>2, <1>3, PTL
=============================================================================
