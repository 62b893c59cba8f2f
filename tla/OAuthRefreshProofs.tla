-------------------------- MODULE OAuthRefreshProofs --------------------------
(* Proofs about OAuthRefresh, for any number of workers, cycles, processes, *)
(* tokens and faults.                                                       *)
EXTENDS OAuthRefresh, TLAPS

Presenting == {"exchange", "recover", "give_up", "persist"}
Rejected == {"recover", "give_up", "condemn"}

\* Tokens are known only after they were issued, and what a worker got is
\* newer than what it presented.
IssuedOnly ==
    /\ row.token <= issued
    /\ \A t \in valid \union spent : t <= issued
    /\ \A w \in Workers : /\ tokens[w].old <= issued /\ tokens[w].new <= issued
                          /\ pc[w] = "persist" => tokens[w].old < tokens[w].new

\* A worker blames a token only if the provider rejects it, or refused the
\* account when the token was presented.
BlamesRejected ==
    \A w \in Workers : pc[w] \in Rejected =>
        tokens[w].old \notin valid \/ tokens[w].old \in denied

\* Who is between the locks holds the Redis key.
ExclusiveOwnsKey ==
    Apart => \A w \in Workers :
        /\ pc[w] # "late"
        /\ pc[w] \in Exclusive => w \in mine /\ lock = w

\* Without a re-authorisation, what a worker presents is what the row holds;
\* unless the provider refused accounts whose tokens it honours, nobody is about
\* to store a token beside one who condemns the account.
PresentsTheRow == Apart /\ ~reauthorised =>
    /\ \A w \in Workers : pc[w] \in Presenting => tokens[w].old = row.token
    /\ denied = {} => \A w \in Workers : pc[w] = "condemn" =>
          /\ tokens[w].old = row.token
          /\ \A v \in Workers : pc[v] # "persist"

\* A spent token stays in the row only until its successor is stored.
SpentIsReplaced == doubts = {} /\ row.token \in spent =>
    \E w \in Workers : pc[w] = "persist" /\ tokens[w].old = row.token

\* What is about to be presented, or stored, was not presented before.
FreshInHand == doubts = {} => \A w \in Workers :
    /\ pc[w] = "exchange" => tokens[w].old \notin spent
    /\ pc[w] = "persist" => tokens[w].new \notin spent

Inv ==
    /\ TypeOK /\ IssuedOnly /\ BlamesRejected /\ ExclusiveOwnsKey
    /\ PresentsTheRow /\ SpentIsReplaced /\ FreshInHand

-----------------------------------------------------------------------------
\* Goto and Exchange keep the types of what a worker knows.
LEMMA GotoTypes ==
  ASSUME TypeOK, NEW w \in Workers, NEW l \in Labels, Goto(w, l)
  PROVE  /\ pc' \in [Workers -> Labels]
         /\ tokens' \in [Workers -> [old : 0..MaxTokens, new : 0..MaxTokens]]
  BY RefreshAssumption DEF Goto, TypeOK, NoTokens

LEMMA ExchangeTypes ==
  ASSUME TypeOK, NEW w \in Workers, NEW l \in Labels,
         NEW old \in 0..MaxTokens, NEW new \in 0..MaxTokens, Exchange(w, old, new, l)
  PROVE  /\ pc' \in [Workers -> Labels]
         /\ tokens' \in [Workers -> [old : 0..MaxTokens, new : 0..MaxTokens]]
  BY DEF Exchange, TypeOK

LEMMA FaultTypes ==
  ASSUME TypeOK, NEW d \in {"lapse", "lockless", "lost"},
         NoFault \/ Doubt(d) \/ (Fault /\ UNCHANGED doubts)
  PROVE  faults' \in 0..MaxFaults /\ doubts' \subseteq {"lapse", "lockless", "lost"}
  <1>1. faults \in 0..MaxFaults /\ doubts \subseteq {"lapse", "lockless", "lost"}
    BY DEF TypeOK
  <1>2. Fault => faults' \in 0..MaxFaults
    BY <1>1, RefreshAssumption DEF Fault
  <1> QED BY <1>1, <1>2 DEF NoFault, Doubt

\* The types are inductive.
LEMMA TypeStep == TypeOK /\ IssuedOnly /\ [Next]_vars => TypeOK'
  <1> SUFFICES ASSUME TypeOK, IssuedOnly, [Next]_vars PROVE TypeOK'
    BY PTL
  <1> USE DEF Labels, Exclusive
  <1>1. ASSUME NEW w \in Workers, AcquireRefreshLock(w) PROVE TypeOK'
    <2>1. Goto(w, "reread")
      BY <1>1 DEF AcquireRefreshLock
    <2>2. NoFault \/ Doubt("lockless")
      BY <1>1 DEF AcquireRefreshLock
    <2> QED
      BY <1>1, <2>1, <2>2, GotoTypes, FaultTypes
      DEF AcquireRefreshLock, TypeOK, provider, authority
  <1>2. ASSUME NEW w \in Workers, Reread(w) PROVE TypeOK'
    <2>1. row.token \in 0..MaxTokens /\ 0 \in 0..MaxTokens
      BY RefreshAssumption DEF TypeOK, Tokens
    <2>2. Exchange(w, row.token, 0, "exchange") \/ Goto(w, "release")
      BY <1>2 DEF Reread
    <2> QED
      BY <1>2, <2>1, <2>2, GotoTypes, ExchangeTypes
      DEF Reread, TypeOK, provider, authority, locks
  <1>3. ASSUME NEW w \in Workers, Refresh(w) PROVE TypeOK'
    <2> DEFINE old == tokens[w].old
    <2>1. old \in 0..MaxTokens
      BY DEF TypeOK
    <2>2. CASE old \in valid
      <3>1. issued' \in Tokens /\ valid' \subseteq Tokens /\ spent' \subseteq Tokens
        <4>1. issued' = issued + 1 /\ issued < MaxTokens /\ issued \in 1..MaxTokens
          BY <1>3, <2>2 DEF Refresh, Rotate, Reject, TypeOK, Tokens
        <4>2. issued' \in Tokens
          BY <4>1, RefreshAssumption DEF Tokens
        <4> QED BY <1>3, <2>2, <4>2 DEF Refresh, Rotate, Reject, TypeOK
      <3>2. \/ Exchange(w, old, issued', "persist") /\ NoFault
            \/ Goto(w, "release") /\ Doubt("lost")
        BY <1>3, <2>2 DEF Refresh, Rotate, Reject
      <3>3. issued' \in 0..MaxTokens
        BY <3>1 DEF Tokens
      <3> QED
        BY <1>3, <2>1, <2>2, <3>1, <3>2, <3>3, GotoTypes, ExchangeTypes, FaultTypes
        DEF Refresh, Rotate, Reject, TypeOK, locks, authority
    <2>3. CASE old \notin valid
      <3>1. presented' \subseteq Tokens
        BY <1>3, <2>3 DEF Refresh, Rotate, Reject, TypeOK
      <3>2. Goto(w, "recover") /\ NoFault
        BY <1>3, <2>3 DEF Refresh, Rotate, Reject
      <3> QED
        BY <1>3, <2>3, <3>1, <3>2, GotoTypes, FaultTypes DEF Refresh, Rotate, Reject, TypeOK, locks, authority
    <2> QED BY <2>2, <2>3
  <1>4. ASSUME NEW w \in Workers, TryRecoverFromRefreshRace(w) PROVE TypeOK'
    <2>1. \E l \in Labels : Goto(w, l)
      BY <1>4 DEF TryRecoverFromRefreshRace
    <2> QED
      BY <1>4, <2>1, GotoTypes
      DEF TryRecoverFromRefreshRace, TypeOK, provider, locks, authority
  <1>5. ASSUME NEW w \in Workers, Persist(w) PROVE TypeOK'
    <2>1. row' \in [token : Tokens, status : {"active", "error"}, due : BOOLEAN]
      <3>1. tokens[w].new \in 0..MaxTokens /\ tokens[w].old \in 0..MaxTokens
        BY DEF TypeOK
      <3>2. tokens[w].old < tokens[w].new
        BY <1>5 DEF Persist, IssuedOnly
      <3>3. tokens[w].new \in Tokens
        BY <3>1, <3>2, RefreshAssumption DEF Tokens
      <3> QED BY <1>5, <3>3 DEF Persist, TypeOK
    <2> QED
      BY <1>5, <2>1, GotoTypes DEF Persist, TypeOK, provider, locks, authority
  <1>6. ASSUME NEW w \in Workers, ReleaseRefreshLock(w) PROVE TypeOK'
    <2>1. \E l \in Labels : Goto(w, l)
      BY <1>6 DEF ReleaseRefreshLock
    <2>2. NoFault \/ (Fault /\ UNCHANGED doubts)
      BY <1>6 DEF ReleaseRefreshLock
    <2> QED
      BY <1>6, <2>1, <2>2, GotoTypes, FaultTypes
      DEF ReleaseRefreshLock, TypeOK, provider, authority
  <1>7. ASSUME NEW w \in Workers, SetError(w) PROVE TypeOK'
    BY <1>7, GotoTypes DEF SetError, TypeOK, provider, locks, authority
  <1>8. ASSUME NEW w \in Workers, StepFails(w) PROVE TypeOK'
    <2>1. \E l \in Labels : Goto(w, l)
      BY <1>8 DEF StepFails
    <2>2. Doubt("lost") \/ (Fault /\ UNCHANGED doubts)
      BY <1>8 DEF StepFails
    <2> QED
      BY <1>8, <2>1, <2>2, GotoTypes, FaultTypes DEF StepFails, TypeOK, provider, locks, authority
  <1>9. ASSUME NEW w \in Workers, Crash(w) PROVE TypeOK'
    <2>1. Doubt("lost") \/ (Fault /\ UNCHANGED doubts)
      BY <1>9 DEF Crash
    <2>2. /\ pc' \in [Workers -> Labels]
          /\ tokens' \in [Workers -> [old : 0..MaxTokens, new : 0..MaxTokens]]
      BY <1>9, RefreshAssumption DEF Crash, TypeOK, NoTokens
    <2> QED
      BY <1>9, <2>1, <2>2, FaultTypes DEF Crash, TypeOK, provider, authority
  <1>10. CASE LeaseEnds
    BY <1>10 DEF LeaseEnds, TypeOK, provider, local, authority
  <1>11. CASE LeaseLapses
    BY <1>11, FaultTypes DEF LeaseLapses, TypeOK, provider, local, authority
  <1>12. CASE AccessTokenExpires
    BY <1>12 DEF AccessTokenExpires, TypeOK, provider, locks, local, authority
  <1>13. CASE Reauthorise
    <2>1. issued' \in Tokens
      BY <1>13, RefreshAssumption DEF Reauthorise, TypeOK, Tokens
    <2> QED
      BY <1>13, <2>1 DEF Reauthorise, TypeOK, locks, local
  <1>14. CASE ClearError
    BY <1>14, RefreshAssumption DEF ClearError, Fault, TypeOK, provider, locks, local
  <1>15. CASE UNCHANGED vars
    BY <1>15 DEF vars, TypeOK, provider, locks, local, authority
  <1>16. ASSUME NEW w \in Workers, RefreshDenied(w) PROVE TypeOK'
    <2>1. \E l \in Labels : Goto(w, l)
      BY <1>16 DEF RefreshDenied
    <2>2. tokens[w].old \in Tokens
      BY <1>16 DEF RefreshDenied, TypeOK
    <2> QED
      BY <1>16, <2>1, <2>2, GotoTypes DEF RefreshDenied, TypeOK, locks, authority
  <1>17. ASSUME NEW w \in Workers, LateAnswer(w) PROVE TypeOK'
    <2>1. Goto(w, "release") /\ "release" \in Labels
      BY <1>17 DEF LateAnswer
    <2>2. /\ valid' \subseteq Tokens /\ issued' \in Tokens /\ spent' \subseteq Tokens
          /\ presented' \subseteq Tokens /\ denied' \subseteq Tokens
      <3>1. CASE Rotate(tokens[w].old)
        <4>1. issued' = issued + 1 /\ issued < MaxTokens /\ issued \in 1..MaxTokens
          BY <3>1 DEF Rotate, TypeOK, Tokens
        <4>2. issued' \in Tokens
          BY <4>1, RefreshAssumption DEF Tokens
        <4> QED BY <3>1, <4>2 DEF Rotate, TypeOK
      <3>2. CASE Reject(tokens[w].old) \/ UNCHANGED provider
        BY <3>2 DEF Reject, provider, TypeOK
      <3> QED BY <1>17, <3>1, <3>2 DEF LateAnswer
    <2> QED
      BY <1>17, <2>1, <2>2, GotoTypes DEF LateAnswer, TypeOK, locks, authority
  <1> QED
    BY <1>1, <1>2, <1>3, <1>4, <1>5, <1>6, <1>7, <1>8, <1>9, <1>10, <1>11, <1>12,
       <1>13, <1>14, <1>15, <1>16, <1>17 DEF Next, Progress

\* No step invents a token.
LEMMA IssuedOnlyStep ==
  ASSUME TypeOK, IssuedOnly, [Next]_vars
  PROVE  IssuedOnly'
  <1>1. ASSUME NEW w \in Workers, AcquireRefreshLock(w) PROVE IssuedOnly'
    BY <1>1 DEF AcquireRefreshLock, IssuedOnly, Goto, NoTokens, provider
  <1>2. ASSUME NEW w \in Workers, Reread(w) PROVE IssuedOnly'
    BY <1>2 DEF Reread, IssuedOnly, TypeOK, Tokens, Goto, NoTokens, provider, Exchange
  <1>3. ASSUME NEW w \in Workers, Refresh(w) PROVE IssuedOnly'
    <2> DEFINE old == tokens[w].old
    <2>1. issued \in 1..MaxTokens /\ issued' \in {issued, issued + 1}
      BY <1>3 DEF Refresh, Rotate, Reject, TypeOK, Tokens
    <2>2. old <= issued /\ old \in Nat
      BY DEF IssuedOnly, TypeOK
    <2>3. \A t \in valid' \union spent' : t <= issued'
      <3>1. \A t \in valid \union spent : t <= issued /\ t \in Nat
        BY DEF IssuedOnly, TypeOK, Tokens
      <3> QED BY <1>3, <2>1, <2>2, <3>1 DEF Refresh, Rotate, Reject
    <2>4. ASSUME NEW v \in Workers
          PROVE  /\ tokens'[v].old <= issued' /\ tokens'[v].new <= issued'
                 /\ pc'[v] = "persist" => tokens'[v].old < tokens'[v].new
      <3>1. CASE v # w
        <4>1. tokens'[v] = tokens[v] /\ pc'[v] = pc[v]
          BY <1>3, <3>1 DEF Refresh, Rotate, Reject, Goto, TypeOK, Exchange
        <4>2. tokens[v].old \in Nat /\ tokens[v].new \in Nat
          BY DEF TypeOK
        <4> QED BY <2>1, <4>1, <4>2 DEF IssuedOnly
      <3>2. CASE v = w
        <4>1. \/ /\ tokens'[w] = [old |-> old, new |-> issued']
                 /\ issued' = issued + 1
              \/ tokens'[w] = NoTokens /\ pc'[w] = "release"
              \/ tokens'[w] = tokens[w] /\ pc'[w] = "recover"
          BY <1>3 DEF Refresh, Rotate, Reject, Goto, TypeOK, Exchange
        <4>2. tokens[w].new <= issued /\ tokens[w].new \in Nat
          BY DEF IssuedOnly, TypeOK
        <4> QED BY <2>1, <2>2, <3>2, <4>1, <4>2 DEF NoTokens
      <3> QED BY <3>1, <3>2
    <2>5. row'.token <= issued'
      BY <1>3, <2>1 DEF Refresh, Rotate, Reject, IssuedOnly, TypeOK, Tokens
    <2> QED BY <2>3, <2>4, <2>5 DEF IssuedOnly
  <1>4. ASSUME NEW w \in Workers, TryRecoverFromRefreshRace(w) PROVE IssuedOnly'
    BY <1>4 DEF TryRecoverFromRefreshRace, IssuedOnly, TypeOK, Tokens, Goto, NoTokens, provider
  <1>5. ASSUME NEW w \in Workers, Persist(w) PROVE IssuedOnly'
    <2>1. /\ \A v \in Workers : v # w => tokens'[v] = tokens[v] /\ pc'[v] = pc[v]
          /\ tokens'[w] = NoTokens /\ pc'[w] = "release"
      <3>1. Goto(w, "release")
        BY <1>5 DEF Persist
      <3>2. /\ pc' = [pc EXCEPT ![w] = "release"] /\ tokens' = [tokens EXCEPT ![w] = NoTokens]
            /\ DOMAIN pc = Workers /\ DOMAIN tokens = Workers
        BY <3>1 DEF Goto, TypeOK
      <3>3. ASSUME NEW v \in Workers, v # w PROVE tokens'[v] = tokens[v] /\ pc'[v] = pc[v]
        BY <3>2, <3>3
      <3>4. tokens'[w] = NoTokens /\ pc'[w] = "release"
        BY <3>2
      <3> QED BY <3>3, <3>4
    <2>2. row'.token <= issued
      BY <1>5 DEF Persist, IssuedOnly, TypeOK
    <2>3. 0 <= issued
      BY DEF TypeOK, Tokens
    <2> QED BY <1>5, <2>1, <2>2, <2>3 DEF Persist, IssuedOnly, provider, NoTokens
  <1>6. ASSUME NEW w \in Workers, ReleaseRefreshLock(w) PROVE IssuedOnly'
    BY <1>6 DEF ReleaseRefreshLock, IssuedOnly, TypeOK, Tokens, Goto, NoTokens, provider
  <1>7. ASSUME NEW w \in Workers, SetError(w) PROVE IssuedOnly'
    BY <1>7 DEF SetError, IssuedOnly, TypeOK, Tokens, Goto, NoTokens, provider
  <1>8. ASSUME NEW w \in Workers, StepFails(w) PROVE IssuedOnly'
    BY <1>8 DEF StepFails, IssuedOnly, TypeOK, Tokens, Goto, NoTokens, provider
  <1>9. ASSUME NEW w \in Workers, Crash(w) PROVE IssuedOnly'
    BY <1>9 DEF Crash, IssuedOnly, TypeOK, Tokens, NoTokens, provider
  <1>10. CASE LeaseEnds
    BY <1>10 DEF LeaseEnds, IssuedOnly, provider, local
  <1>11. CASE LeaseLapses
    BY <1>11 DEF LeaseLapses, IssuedOnly, TypeOK, provider
  <1>12. CASE AccessTokenExpires
    BY <1>12 DEF AccessTokenExpires, IssuedOnly, provider, local
  <1>13. CASE Reauthorise
    BY <1>13 DEF Reauthorise, IssuedOnly, TypeOK, Tokens, local
  <1>14. CASE ClearError
    BY <1>14 DEF ClearError, IssuedOnly, TypeOK, provider, local
  <1>15. CASE UNCHANGED vars
    BY <1>15 DEF vars, IssuedOnly, provider, local
  <1>16. ASSUME NEW w \in Workers, RefreshDenied(w) PROVE IssuedOnly'
    BY <1>16 DEF RefreshDenied, IssuedOnly, TypeOK, Tokens, Goto, NoTokens
  <1>17. ASSUME NEW w \in Workers, LateAnswer(w) PROVE IssuedOnly'
    <2>1. issued \in 1..MaxTokens /\ issued' \in {issued, issued + 1}
      BY <1>17 DEF LateAnswer, Rotate, Reject, provider, TypeOK, Tokens
    <2>2. \A t \in valid' \union spent' : t <= issued'
      <3>1. \A t \in valid \union spent : t <= issued /\ t \in Nat
        BY DEF IssuedOnly, TypeOK, Tokens
      <3>2. tokens[w].old <= issued /\ tokens[w].old \in Nat
        BY DEF IssuedOnly, TypeOK
      <3> QED BY <1>17, <2>1, <3>1, <3>2 DEF LateAnswer, Rotate, Reject, provider
    <2>3. ASSUME NEW v \in Workers
          PROVE  /\ tokens'[v].old <= issued' /\ tokens'[v].new <= issued'
                 /\ pc'[v] = "persist" => tokens'[v].old < tokens'[v].new
      <3>1. \/ v # w /\ tokens'[v] = tokens[v] /\ pc'[v] = pc[v]
            \/ tokens'[v] = NoTokens /\ pc'[v] = "release"
        BY <1>17 DEF LateAnswer, Goto, TypeOK
      <3>2. tokens[v].old \in Nat /\ tokens[v].new \in Nat
        BY DEF TypeOK
      <3> QED BY <2>1, <3>1, <3>2 DEF IssuedOnly, NoTokens
    <2>4. row'.token <= issued'
      BY <1>17, <2>1 DEF LateAnswer, IssuedOnly, TypeOK, Tokens
    <2> QED BY <2>2, <2>3, <2>4 DEF IssuedOnly
  <1> QED
    BY <1>1, <1>2, <1>3, <1>4, <1>5, <1>6, <1>7, <1>8, <1>9, <1>10, <1>11, <1>12,
       <1>13, <1>14, <1>15, <1>16, <1>17 DEF Next, Progress

\* A provider that rejects a token rejects it for ever.
LEMMA BlamesRejectedStep ==
  ASSUME TypeOK, IssuedOnly, BlamesRejected, [Next]_vars
  PROVE  BlamesRejected'
  <1>1. ASSUME NEW w \in Workers, AcquireRefreshLock(w) PROVE BlamesRejected'
    BY <1>1 DEF AcquireRefreshLock, BlamesRejected, Rejected, Exclusive, Goto, provider
  <1>2. ASSUME NEW w \in Workers, Reread(w) PROVE BlamesRejected'
    BY <1>2 DEF Reread, BlamesRejected, Rejected, TypeOK, Exclusive, Goto, provider, Exchange
  <1>3. ASSUME NEW w \in Workers, Refresh(w) PROVE BlamesRejected'
    BY <1>3 DEF Refresh, Rotate, Reject, BlamesRejected, Rejected, IssuedOnly, TypeOK, Tokens, Exclusive, Goto,
       Exchange
  <1>4. ASSUME NEW w \in Workers, TryRecoverFromRefreshRace(w) PROVE BlamesRejected'
    BY <1>4 DEF TryRecoverFromRefreshRace, BlamesRejected, Rejected, TypeOK, Exclusive, Goto,
       provider
  <1>5. ASSUME NEW w \in Workers, Persist(w) PROVE BlamesRejected'
    BY <1>5 DEF Persist, BlamesRejected, Rejected, Exclusive, Goto, provider
  <1>6. ASSUME NEW w \in Workers, ReleaseRefreshLock(w) PROVE BlamesRejected'
    BY <1>6 DEF ReleaseRefreshLock, BlamesRejected, Rejected, Exclusive, Goto, provider
  <1>7. ASSUME NEW w \in Workers, SetError(w) PROVE BlamesRejected'
    BY <1>7 DEF SetError, BlamesRejected, Rejected, TypeOK, Exclusive, Goto, provider
  <1>8. ASSUME NEW w \in Workers, StepFails(w) PROVE BlamesRejected'
    BY <1>8 DEF StepFails, BlamesRejected, Rejected, TypeOK, Exclusive, Goto, provider
  <1>9. ASSUME NEW w \in Workers, Crash(w) PROVE BlamesRejected'
    BY <1>9 DEF Crash, BlamesRejected, Rejected, Exclusive, provider
  <1>10. CASE LeaseEnds
    BY <1>10 DEF LeaseEnds, BlamesRejected, Rejected, Exclusive, provider, local
  <1>11. CASE LeaseLapses
    BY <1>11 DEF LeaseLapses, BlamesRejected, Rejected, TypeOK, provider
  <1>12. CASE AccessTokenExpires
    BY <1>12 DEF AccessTokenExpires, BlamesRejected, Rejected, Exclusive, provider, local
  <1>13. CASE Reauthorise
    BY <1>13 DEF Reauthorise, BlamesRejected, Rejected, IssuedOnly, TypeOK, Tokens, Exclusive,
       local
  <1>14. CASE ClearError
    BY <1>14 DEF ClearError, BlamesRejected, Rejected, Exclusive, provider, local
  <1>15. CASE UNCHANGED vars
    BY <1>15 DEF vars, BlamesRejected, Rejected, Exclusive, provider, local
  <1>16. ASSUME NEW w \in Workers, RefreshDenied(w) PROVE BlamesRejected'
    BY <1>16 DEF RefreshDenied, BlamesRejected, Rejected, TypeOK, Goto
  <1>17. ASSUME NEW w \in Workers, LateAnswer(w) PROVE BlamesRejected'
    BY <1>17 DEF LateAnswer, Rotate, Reject, BlamesRejected, Rejected, IssuedOnly, TypeOK,
       Tokens, Goto, provider
  <1> QED
    BY <1>1, <1>2, <1>3, <1>4, <1>5, <1>6, <1>7, <1>8, <1>9, <1>10, <1>11, <1>12,
       <1>13, <1>14, <1>15, <1>16, <1>17 DEF Next, Progress

\* Unless the exclusion is broken, a key is taken by one worker at a time.
LEMMA ExclusiveStep ==
  ASSUME TypeOK, ExclusiveOwnsKey, [Next]_vars
  PROVE  ExclusiveOwnsKey'
  <1>1. ASSUME NEW w \in Workers, AcquireRefreshLock(w) PROVE ExclusiveOwnsKey'
    <2>1. CASE Doubt("lockless")
      BY <2>1 DEF Doubt, ExclusiveOwnsKey, Apart
    <2>2. CASE lock = Nobody /\ lock' = w /\ mine' = mine \union {w} /\ NoFault
      <3>1. /\ pc' = [pc EXCEPT ![w] = "reread"]
            /\ DOMAIN pc = Workers
        BY <1>1 DEF AcquireRefreshLock, Goto, TypeOK
      <3>2. Apart' => \A v \in Workers : pc[v] \notin Exclusive
        BY <2>2, RefreshAssumption DEF NoFault, Apart, ExclusiveOwnsKey
      <3> QED BY <2>2, <3>1, <3>2 DEF ExclusiveOwnsKey, NoFault, Apart, Exclusive
    <2> QED BY <1>1, <2>1, <2>2 DEF AcquireRefreshLock
  <1>2. ASSUME NEW w \in Workers, Reread(w) PROVE ExclusiveOwnsKey'
    BY <1>2 DEF Reread, ExclusiveOwnsKey, Apart, TypeOK, Exclusive, Goto, locks, Exchange
  <1>3. ASSUME NEW w \in Workers, Refresh(w) PROVE ExclusiveOwnsKey'
    BY <1>3 DEF Refresh, Rotate, Reject, ExclusiveOwnsKey, Apart, TypeOK, Doubt, NoFault, Exclusive, Goto,
       locks, Exchange
  <1>4. ASSUME NEW w \in Workers, TryRecoverFromRefreshRace(w) PROVE ExclusiveOwnsKey'
    BY <1>4 DEF TryRecoverFromRefreshRace, ExclusiveOwnsKey, Apart, Exclusive, Goto, locks
  <1>5. ASSUME NEW w \in Workers, Persist(w) PROVE ExclusiveOwnsKey'
    BY <1>5 DEF Persist, ExclusiveOwnsKey, Apart, Exclusive, Goto, locks
  <1>6. ASSUME NEW w \in Workers, ReleaseRefreshLock(w) PROVE ExclusiveOwnsKey'
    BY <1>6 DEF ReleaseRefreshLock, ExclusiveOwnsKey, Apart, TypeOK, Doubt, NoFault, Exclusive,
       Goto
  <1>7. ASSUME NEW w \in Workers, SetError(w) PROVE ExclusiveOwnsKey'
    BY <1>7 DEF SetError, ExclusiveOwnsKey, Apart, Exclusive, Goto, locks
  <1>8. ASSUME NEW w \in Workers, StepFails(w) PROVE ExclusiveOwnsKey'
    BY <1>8 DEF StepFails, ExclusiveOwnsKey, Apart, Doubt, Exclusive, Goto, locks
  <1>9. ASSUME NEW w \in Workers, Crash(w) PROVE ExclusiveOwnsKey'
    BY <1>9 DEF Crash, ExclusiveOwnsKey, Apart, Doubt, Exclusive
  <1>10. CASE LeaseEnds
    BY <1>10 DEF LeaseEnds, ExclusiveOwnsKey, Apart, Exclusive, local
  <1>11. CASE LeaseLapses
    BY <1>11 DEF LeaseLapses, ExclusiveOwnsKey, Apart, Doubt, Exclusive
  <1>12. CASE AccessTokenExpires
    BY <1>12 DEF AccessTokenExpires, ExclusiveOwnsKey, Apart, Exclusive, locks, local
  <1>13. CASE Reauthorise
    BY <1>13 DEF Reauthorise, ExclusiveOwnsKey, Apart, Exclusive, locks, local
  <1>14. CASE ClearError
    BY <1>14 DEF ClearError, ExclusiveOwnsKey, Apart, Exclusive, locks, local
  <1>15. CASE UNCHANGED vars
    BY <1>15 DEF vars, ExclusiveOwnsKey, Apart, Exclusive, locks, local
  <1>16. ASSUME NEW w \in Workers, RefreshDenied(w) PROVE ExclusiveOwnsKey'
    BY <1>16 DEF RefreshDenied, ExclusiveOwnsKey, Apart, TypeOK, Exclusive, Goto, locks
  <1>17. ASSUME NEW w \in Workers, LateAnswer(w) PROVE ExclusiveOwnsKey'
    BY <1>17 DEF LateAnswer, ExclusiveOwnsKey, Apart
  <1> QED
    BY <1>1, <1>2, <1>3, <1>4, <1>5, <1>6, <1>7, <1>8, <1>9, <1>10, <1>11, <1>12,
       <1>13, <1>14, <1>15, <1>16, <1>17 DEF Next, Progress

\* Without a re-authorisation the row changes only as the one worker that
\* exchanged its token stores the new one.
LEMMA PresentsStep ==
  ASSUME TypeOK, IssuedOnly, BlamesRejected, ExclusiveOwnsKey, PresentsTheRow, [Next]_vars
  PROVE  PresentsTheRow'
  <1>1. ASSUME NEW w \in Workers, AcquireRefreshLock(w) PROVE PresentsTheRow'
    BY <1>1 DEF AcquireRefreshLock, PresentsTheRow, Presenting, provider, ExclusiveOwnsKey, Apart, Doubt,
       NoFault, Exclusive, Goto, authority
  <1>2. ASSUME NEW w \in Workers, Reread(w) PROVE PresentsTheRow'
    BY <1>2 DEF Reread, PresentsTheRow, Presenting, provider, ExclusiveOwnsKey, Apart, TypeOK, Exclusive,
       Goto, authority, Exchange
  <1>3. ASSUME NEW w \in Workers, Refresh(w) PROVE PresentsTheRow'
    BY <1>3 DEF Refresh, Rotate, Reject, PresentsTheRow, Presenting, provider, Rejected, BlamesRejected,
       ExclusiveOwnsKey, Apart, TypeOK, Doubt, NoFault, Exclusive, Goto, authority, Exchange
  <1>4. ASSUME NEW w \in Workers, TryRecoverFromRefreshRace(w) PROVE PresentsTheRow'
    BY <1>4 DEF TryRecoverFromRefreshRace, PresentsTheRow, Presenting, provider, ExclusiveOwnsKey, Apart,
       TypeOK, Exclusive, Goto, authority
  <1>5. ASSUME NEW w \in Workers, Persist(w) PROVE PresentsTheRow'
    BY <1>5 DEF Persist, PresentsTheRow, Presenting, provider, ExclusiveOwnsKey, Apart, TypeOK,
       Exclusive, Goto, authority
  <1>6. ASSUME NEW w \in Workers, ReleaseRefreshLock(w) PROVE PresentsTheRow'
    BY <1>6 DEF ReleaseRefreshLock, PresentsTheRow, Presenting, provider, ExclusiveOwnsKey, Apart, Doubt,
       NoFault, Exclusive, Goto, authority
  <1>7. ASSUME NEW w \in Workers, SetError(w) PROVE PresentsTheRow'
    BY <1>7 DEF SetError, PresentsTheRow, Presenting, provider, ExclusiveOwnsKey, Apart, TypeOK,
       Exclusive, Goto, authority
  <1>8. ASSUME NEW w \in Workers, StepFails(w) PROVE PresentsTheRow'
    BY <1>8 DEF StepFails, PresentsTheRow, Presenting, provider, ExclusiveOwnsKey, Apart, TypeOK, Doubt,
       Exclusive, Goto, authority
  <1>9. ASSUME NEW w \in Workers, Crash(w) PROVE PresentsTheRow'
    BY <1>9 DEF Crash, PresentsTheRow, Presenting, provider, ExclusiveOwnsKey, Apart, Doubt, Exclusive,
       authority
  <1>10. CASE LeaseEnds
    BY <1>10 DEF LeaseEnds, PresentsTheRow, Presenting, provider, ExclusiveOwnsKey, Apart, Exclusive,
       local, authority
  <1>11. CASE LeaseLapses
    BY <1>11 DEF LeaseLapses, PresentsTheRow, Presenting, provider, ExclusiveOwnsKey, Apart, Doubt,
       Exclusive
  <1>12. CASE AccessTokenExpires
    BY <1>12 DEF AccessTokenExpires, PresentsTheRow, Presenting, provider, ExclusiveOwnsKey, Apart,
       Exclusive, local, authority
  <1>13. CASE Reauthorise
    BY <1>13 DEF Reauthorise, PresentsTheRow, Presenting, provider, ExclusiveOwnsKey, Apart, Exclusive
  <1>14. CASE ClearError
    BY <1>14 DEF ClearError, PresentsTheRow, Presenting, provider, ExclusiveOwnsKey, Apart, TypeOK,
       Exclusive, local
  <1>15. CASE UNCHANGED vars
    BY <1>15 DEF vars, PresentsTheRow, Presenting, provider, ExclusiveOwnsKey, Apart, Exclusive, local,
       authority
  <1>16. ASSUME NEW w \in Workers, RefreshDenied(w) PROVE PresentsTheRow'
    BY <1>16 DEF RefreshDenied, PresentsTheRow, Presenting, provider, ExclusiveOwnsKey, Apart, TypeOK,
       Exclusive, Goto, authority
  <1>17. ASSUME NEW w \in Workers, LateAnswer(w) PROVE PresentsTheRow'
    BY <1>17 DEF LateAnswer, PresentsTheRow, ExclusiveOwnsKey, Apart, authority
  <1> QED
    BY <1>1, <1>2, <1>3, <1>4, <1>5, <1>6, <1>7, <1>8, <1>9, <1>10, <1>11, <1>12,
       <1>13, <1>14, <1>15, <1>16, <1>17 DEF Next, Progress

\* An exchanged token and its successor are in the hands of the one worker
\* that will store the new one.
LEMMA SpentStep ==
  ASSUME TypeOK, IssuedOnly, ExclusiveOwnsKey, FreshInHand, SpentIsReplaced, [Next]_vars
  PROVE  FreshInHand' /\ SpentIsReplaced'
  <1>1. ASSUME NEW w \in Workers, AcquireRefreshLock(w) PROVE FreshInHand' /\ SpentIsReplaced'
    BY <1>1 DEF AcquireRefreshLock, FreshInHand, SpentIsReplaced, ExclusiveOwnsKey, Apart,
       Doubt, NoFault, Exclusive, Goto, provider
  <1>2. ASSUME NEW w \in Workers, Reread(w) PROVE FreshInHand' /\ SpentIsReplaced'
    BY <1>2 DEF Reread, FreshInHand, SpentIsReplaced, ExclusiveOwnsKey, Apart, TypeOK,
       Exclusive, Goto, provider, Exchange
  <1>3. ASSUME NEW w \in Workers, Refresh(w) PROVE FreshInHand' /\ SpentIsReplaced'
    <2> DEFINE old == tokens[w].old
    <2>0. SUFFICES ASSUME doubts' = {} PROVE FreshInHand' /\ SpentIsReplaced'
      BY DEF FreshInHand, SpentIsReplaced
    <2>1. doubts = {}
      BY <1>3, <2>0 DEF Refresh, Rotate, Reject, NoFault, Doubt
    <2>2. \A v \in Workers : v # w =>
             pc[v] \notin Exclusive /\ pc'[v] = pc[v] /\ tokens'[v] = tokens[v]
      <3>1. pc[w] \in Exclusive
        BY <1>3 DEF Refresh, Rotate, Reject, Exclusive
      <3>2. \A v \in Workers : v # w => pc[v] \notin Exclusive
        BY <2>1, <3>1 DEF ExclusiveOwnsKey, Apart
      <3> QED BY <1>3, <3>2 DEF Refresh, Rotate, Reject, Goto, TypeOK, Exchange
    <2>3. CASE old \in valid
      <3>1. /\ pc'[w] = "persist" /\ tokens'[w] = [old |-> old, new |-> issued + 1]
            /\ spent' = spent \union {old}
        BY <1>3, <2>0, <2>3 DEF Refresh, Rotate, Reject, Doubt, TypeOK, Exchange
      <3>2. issued + 1 \notin spent'
        BY <3>1 DEF IssuedOnly, TypeOK, Tokens
      <3>3. FreshInHand'
        BY <2>2, <3>1, <3>2 DEF FreshInHand, Exclusive
      <3>4. SpentIsReplaced'
        <4>1. row'.token = row.token /\ (row.token \in spent =>
                 \E v \in Workers : pc[v] = "persist" /\ tokens[v].old = row.token)
          BY <1>3, <2>1 DEF Refresh, Rotate, Reject, SpentIsReplaced
        <4> QED BY <2>2, <3>1, <4>1 DEF SpentIsReplaced, Exclusive
      <3> QED BY <3>3, <3>4
    <2>4. CASE old \notin valid
      <3>1. pc'[w] = "recover" /\ pc[w] = "exchange" /\ spent' = spent /\ row' = row
        BY <1>3, <2>4 DEF Refresh, Rotate, Reject, Goto, TypeOK
      <3> QED BY <2>1, <2>2, <3>1 DEF FreshInHand, SpentIsReplaced, Exclusive
    <2> QED BY <2>3, <2>4
  <1>4. ASSUME NEW w \in Workers,
  TryRecoverFromRefreshRace(w) PROVE FreshInHand' /\ SpentIsReplaced'
    BY <1>4 DEF TryRecoverFromRefreshRace, FreshInHand, SpentIsReplaced, ExclusiveOwnsKey,
       Apart, Doubt, NoFault, Labels, Exclusive, Goto, NoTokens, provider
  <1>5. ASSUME NEW w \in Workers, Persist(w) PROVE FreshInHand' /\ SpentIsReplaced'
    BY <1>5 DEF Persist, FreshInHand, SpentIsReplaced, ExclusiveOwnsKey, Apart, TypeOK, Doubt,
       NoFault, Labels, Exclusive, Goto, NoTokens, provider
  <1>6. ASSUME NEW w \in Workers, ReleaseRefreshLock(w) PROVE FreshInHand' /\ SpentIsReplaced'
    BY <1>6 DEF ReleaseRefreshLock, FreshInHand, SpentIsReplaced, ExclusiveOwnsKey, Apart,
       Doubt, NoFault, Labels, Exclusive, Goto, NoTokens, provider
  <1>7. ASSUME NEW w \in Workers, SetError(w) PROVE FreshInHand' /\ SpentIsReplaced'
    BY <1>7 DEF SetError, FreshInHand, SpentIsReplaced, ExclusiveOwnsKey, Apart, TypeOK, Doubt,
       NoFault, Labels, Exclusive, Goto, NoTokens, provider
  <1>8. ASSUME NEW w \in Workers, StepFails(w) PROVE FreshInHand' /\ SpentIsReplaced'
    BY <1>8 DEF StepFails, FreshInHand, SpentIsReplaced, ExclusiveOwnsKey, Apart, TypeOK,
       Doubt, NoFault, Labels, Exclusive, Goto, NoTokens, provider
  <1>9. ASSUME NEW w \in Workers, Crash(w) PROVE FreshInHand' /\ SpentIsReplaced'
    BY <1>9 DEF Crash, FreshInHand, SpentIsReplaced, ExclusiveOwnsKey, Apart, Doubt, NoFault,
       Labels, Exclusive, NoTokens, provider
  <1>10. CASE LeaseEnds
    BY <1>10 DEF LeaseEnds, FreshInHand, SpentIsReplaced, ExclusiveOwnsKey, Apart, Doubt,
       NoFault, Labels, Exclusive, NoTokens, provider, local
  <1>11. CASE LeaseLapses
    BY <1>11 DEF LeaseLapses, FreshInHand, SpentIsReplaced, ExclusiveOwnsKey, Apart, Doubt,
       NoFault, Labels, Exclusive, NoTokens
  <1>12. CASE AccessTokenExpires
    BY <1>12 DEF AccessTokenExpires, FreshInHand, SpentIsReplaced, ExclusiveOwnsKey, Apart,
       Doubt, NoFault, Labels, Exclusive, NoTokens, provider, local
  <1>13. CASE Reauthorise
    BY <1>13 DEF Reauthorise, FreshInHand, SpentIsReplaced, IssuedOnly, ExclusiveOwnsKey,
       Apart, Tokens, TypeOK, Doubt, NoFault, Labels, Exclusive, NoTokens, local
  <1>14. CASE ClearError
    BY <1>14 DEF ClearError, FreshInHand, SpentIsReplaced, ExclusiveOwnsKey, Apart, TypeOK,
       Doubt, NoFault, Labels, Exclusive, NoTokens, provider, local
  <1>15. CASE UNCHANGED vars
    BY <1>15 DEF vars, FreshInHand, SpentIsReplaced, ExclusiveOwnsKey, Apart, Doubt, NoFault,
       Labels, Exclusive, NoTokens, provider, local
  <1>16. ASSUME NEW w \in Workers, RefreshDenied(w) PROVE FreshInHand' /\ SpentIsReplaced'
    BY <1>16 DEF RefreshDenied, FreshInHand, SpentIsReplaced, ExclusiveOwnsKey, Apart, TypeOK,
       Exclusive, Goto
  <1>17. ASSUME NEW w \in Workers, LateAnswer(w) PROVE FreshInHand' /\ SpentIsReplaced'
    BY <1>17 DEF LateAnswer, FreshInHand, SpentIsReplaced, ExclusiveOwnsKey, Apart
  <1> QED
    BY <1>1, <1>2, <1>3, <1>4, <1>5, <1>6, <1>7, <1>8, <1>9, <1>10, <1>11, <1>12,
       <1>13, <1>14, <1>15, <1>16, <1>17 DEF Next, Progress

-----------------------------------------------------------------------------
LEMMA Invariance == Spec => []Inv
<1>1. Init => Inv
  <2> SUFFICES ASSUME Init PROVE Inv
    BY PTL
  <2>1. TypeOK /\ IssuedOnly
    <3>1. 1 \in Tokens /\ 0 \in 0..MaxTokens /\ 0 \in 0..MaxFaults
      BY RefreshAssumption DEF Tokens
    <3>2. tokens \in [Workers -> [old : 0..MaxTokens, new : 0..MaxTokens]]
      BY <3>1 DEF Init, NoTokens
    <3>3. TypeOK
      BY <3>1, <3>2 DEF Init, TypeOK, Labels
    <3>4. IssuedOnly
      BY DEF Init, IssuedOnly, NoTokens
    <3> QED BY <3>3, <3>4
  <2>2. BlamesRejected /\ ExclusiveOwnsKey /\ PresentsTheRow /\ SpentIsReplaced /\ FreshInHand
    BY DEF Init, BlamesRejected, ExclusiveOwnsKey, PresentsTheRow, SpentIsReplaced,
           FreshInHand, Rejected, Exclusive, Presenting
  <2> QED BY <2>1, <2>2 DEF Inv
<1>2. Inv /\ [Next]_vars => Inv'
  <2> SUFFICES ASSUME Inv, [Next]_vars PROVE Inv'
    BY PTL
  <2> QED
    BY TypeStep, IssuedOnlyStep, BlamesRejectedStep, ExclusiveStep, PresentsStep, SpentStep
    DEF Inv
<1> QED BY <1>1, <1>2, PTL DEF Spec

\* The types hold for any workers and bounds; among others, a worker stores
\* only a token it got (OAuthRefreshAPI.RefreshIfNeeded).
THEOREM RefreshTypeCorrect == Spec => []TypeOK
<1>1. Inv => TypeOK
  BY DEF Inv
<1> QED BY <1>1, Invariance, PTL

\* However many cycles and requests of however many processes want the
\* account refreshed, a token is presented once while Redis works, nobody
\* outlasts its lease and no answer is lost.
THEOREM SpentOnce == Spec => []TokenSpentOnce
<1>1. Init => TokenSpentOnce
  BY DEF Init, TokenSpentOnce
<1>2. Inv /\ TokenSpentOnce /\ [Next]_vars => TokenSpentOnce'
  <2> SUFFICES ASSUME Inv, TokenSpentOnce, [Next]_vars, doubts' = {} PROVE presented' = {}
    BY DEF TokenSpentOnce
  <2>1. doubts = {}
    BY DEF Next, vars, Progress, AcquireRefreshLock, Reread, Refresh, RefreshDenied, LateAnswer, TryRecoverFromRefreshRace,
           Persist, ReleaseRefreshLock, SetError, StepFails, Crash, LeaseEnds, LeaseLapses,
           AccessTokenExpires, Reauthorise, ClearError, NoFault, Doubt
  <2>2. presented = {}
    BY <2>1 DEF TokenSpentOnce
  <2>3. CASE \E w \in Workers : Refresh(w)
    <3>1. PICK w \in Workers : Refresh(w)
      BY <2>3
    <3>2. tokens[w].old \notin spent
      BY <2>1, <3>1 DEF Inv, FreshInHand, Refresh, Rotate, Reject
    <3> QED BY <2>2, <3>1, <3>2 DEF Refresh, Rotate, Reject
  <2>4. CASE ~\E w \in Workers : Refresh(w)
    <3>0. \A w \in Workers : ~LateAnswer(w)
      BY <2>1 DEF Inv, ExclusiveOwnsKey, Apart, LateAnswer
    <3>1. UNCHANGED presented
      BY <2>4, <3>0 DEF Next, vars, Progress, AcquireRefreshLock, Reread, RefreshDenied, TryRecoverFromRefreshRace,
           Persist, ReleaseRefreshLock, SetError, StepFails, Crash, LeaseEnds, LeaseLapses,
           AccessTokenExpires, Reauthorise, ClearError, provider
    <3> QED BY <2>2, <3>1
  <2> QED BY <2>3, <2>4
<1> QED BY <1>1, <1>2, Invariance, PTL DEF Spec

\* SetError and SetGrokOAuthRefreshErrorIfCredentialsUnchanged condemn an
\* account only for the credentials it has, with the exception stated; that the
\* provider honours the token and refused the account all the same is the case
\* of row.token \in denied.
THEOREM ErrorsAreDeserved == Spec => ErrorIsDeserved
<1>1. Inv /\ [Next]_vars =>
        [row.status = "active" /\ row'.status = "error" =>
            \/ row.token \notin valid
            \/ row.token \in denied
            \/ kind = "other" /\ (reauthorised \/ ~Apart \/ denied # {})]_vars
  <2> SUFFICES ASSUME Inv, [Next]_vars, row.status = "active", row'.status = "error",
                      kind # "other" \/ (~reauthorised /\ Apart /\ denied = {})
               PROVE  row.token \notin valid \/ row.token \in denied
    BY DEF vars
  <2>1. PICK w \in Workers : SetError(w)
    BY DEF Next, vars, Progress, AcquireRefreshLock, Reread, Refresh, RefreshDenied, LateAnswer,
           TryRecoverFromRefreshRace, Persist, ReleaseRefreshLock, StepFails, Crash, LeaseEnds,
           LeaseLapses, AccessTokenExpires, Reauthorise, ClearError, Inv, TypeOK
  <2>2. tokens[w].old \notin valid \/ tokens[w].old \in denied
    BY <2>1 DEF SetError, Inv, BlamesRejected, Rejected
  <2>3. CASE kind = "grok"
    BY <2>1, <2>2, <2>3 DEF SetError
  <2>4. CASE kind # "grok"
    <3>1. kind = "other"
      BY <2>4, RefreshAssumption DEF Inv, TypeOK
    <3>2. tokens[w].old = row.token
      BY <2>1, <3>1 DEF SetError, Inv, PresentsTheRow
    <3> QED BY <2>2, <3>2
  <2> QED BY <2>3, <2>4
<1> QED BY <1>1, Invariance, PTL DEF Spec, ErrorIsDeserved

\* UpdateGrokOAuthCredentialsIfUnchanged, and under the locks every store,
\* replaces credentials only by newer ones.
THEOREM NewestStay == Spec => NewestCredentialsStay
<1>1. Inv /\ [Next]_vars =>
        [row'.token < row.token => kind = "other" /\ (reauthorised \/ ~Apart)]_vars
  <2> SUFFICES ASSUME Inv, [Next]_vars, kind # "other" \/ (~reauthorised /\ Apart)
               PROVE  ~(row'.token < row.token)
    BY RefreshAssumption DEF vars, Inv, TypeOK
  <2>0. row.token \in Nat /\ row.token <= issued /\ issued \in Nat
    BY DEF Inv, TypeOK, Tokens, IssuedOnly
  <2>1. CASE \E w \in Workers : Persist(w)
    <3>1. PICK w \in Workers : Persist(w)
      BY <2>1
    <3>2. tokens[w].old < tokens[w].new /\ tokens[w].old \in Nat /\ tokens[w].new \in Nat
      BY <3>1 DEF Persist, Inv, IssuedOnly, TypeOK
    <3>3. row'.token = row.token \/ (row'.token = tokens[w].new /\ row.token = tokens[w].old)
      <4>1. CASE kind = "grok"
        BY <3>1, <4>1 DEF Persist, Inv, TypeOK
      <4>2. CASE kind # "grok"
        <5>1. kind = "other"
          BY <4>2, RefreshAssumption DEF Inv, TypeOK
        <5>2. tokens[w].old = row.token
          BY <3>1, <5>1 DEF Persist, Inv, PresentsTheRow, Presenting
        <5> QED BY <3>1, <5>2 DEF Persist, Inv, TypeOK
      <4> QED BY <4>1, <4>2
    <3> QED BY <2>0, <3>2, <3>3
  <2>2. CASE Reauthorise
    BY <2>0, <2>2 DEF Reauthorise, Inv, TypeOK
  <2>3. CASE ~Reauthorise /\ ~\E w \in Workers : Persist(w)
    <3>1. row'.token = row.token
      BY <2>3 DEF Next, vars, Progress, AcquireRefreshLock, Reread, Refresh, RefreshDenied,
           LateAnswer, TryRecoverFromRefreshRace, ReleaseRefreshLock, SetError, StepFails, Crash,
           LeaseEnds, LeaseLapses, AccessTokenExpires, ClearError, Inv, TypeOK
    <3> QED BY <2>0, <3>1
  <2> QED BY <2>1, <2>2, <2>3
<1> QED BY <1>1, Invariance, PTL DEF Spec, NewestCredentialsStay
===============================================================================
