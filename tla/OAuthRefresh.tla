---------------------------- MODULE OAuthRefresh ----------------------------
(* The refresh of one account's OAuth token by background cycles and by     *)
(* requests of several processes, while an administrator may authorise the  *)
(* account anew.  service/oauth_refresh_api.go, token_refresh_service.go.   *)
(*                                                                          *)
(* A refresh exchanges the stored refresh token for a new one, after which  *)
(* the provider rejects the old one (invalid_grant): a token presented      *)
(* twice costs the account.  The provider may also refuse the account for   *)
(* another reason and go on honouring its token (access_denied, a missing   *)
(* project or entitlement), which the cycle takes for as final.  Tokens are *)
(* numbered as they are issued.  One action is one Redis command, statement *)
(* or provider call.                                                        *)
EXTENDS Integers

CONSTANTS Workers,      \* goroutines that may refresh
          Cycles,       \* those of the background service; the rest are requests
          Process,      \* the process of each
          Nobody,       \* the key is not set
          Kinds,        \* "grok": written only if unchanged; "other": written blindly
          MaxTokens,    \* bound: tokens the provider issues
          MaxFaults     \* bound: failing steps, lost replies, deaths, lapses

ASSUME RefreshAssumption ==
    /\ Cycles \subseteq Workers /\ Nobody \notin Workers
    /\ Kinds \subseteq {"grok", "other"}
    /\ MaxTokens \in Nat \ {0} /\ MaxFaults \in Nat

VARIABLES kind, row,
          valid, issued,       \* the provider: tokens it honours, the last one
          spent, presented,    \* history: tokens exchanged, and presented after that
          denied,              \* history: tokens it honours, but refused the account with
          lock,                \* who set the Redis key; the key does not say
          mine,                \* workers that will delete the key when they return
          pc, tokens,          \* per worker: the token it presents and the one it got
          admin, reauthorised, \* the new authorisation, and whether there was one
          faults, doubts       \* history: what broke the mutual exclusion or lost a token

provider == <<valid, issued, spent, presented, denied>>
locks == <<lock, mine>>
local == <<pc, tokens>>
authority == <<kind, admin, reauthorised>>
vars == <<row, provider, locks, local, authority, faults, doubts>>

Exclusive == {"reread", "exchange", "late", "recover", "persist", "release", "give_up"}
Labels == {"idle", "condemn"} \union Exclusive
Tokens == 1..MaxTokens
NoTokens == [old |-> 0, new |-> 0]

TypeOK ==
    /\ kind \in Kinds
    /\ row \in [token : Tokens, status : {"active", "error"}, due : BOOLEAN]
    /\ valid \subseteq Tokens /\ issued \in Tokens
    /\ spent \subseteq Tokens /\ presented \subseteq Tokens /\ denied \subseteq Tokens
    /\ lock \in Workers \union {Nobody} /\ mine \subseteq Workers
    /\ pc \in [Workers -> Labels]
    /\ tokens \in [Workers -> [old : 0..MaxTokens, new : 0..MaxTokens]]
    /\ admin \in {"idle", "clearing"} /\ reauthorised \in BOOLEAN
    /\ faults \in 0..MaxFaults
    /\ doubts \subseteq {"lapse", "lockless", "lost"}

Init ==
    /\ kind \in Kinds
    /\ row = [token |-> 1, status |-> "active", due |-> FALSE]
    /\ valid = {1} /\ issued = 1 /\ spent = {} /\ presented = {} /\ denied = {}
    /\ lock = Nobody /\ mine = {}
    /\ pc = [w \in Workers |-> "idle"]
    /\ tokens = [w \in Workers |-> NoTokens]
    /\ admin = "idle" /\ reauthorised = FALSE
    /\ faults = 0 /\ doubts = {}

-----------------------------------------------------------------------------
Goto(w, l) ==
    /\ pc' = [pc EXCEPT ![w] = l]
    /\ tokens' = IF l \in {"idle", "release"} THEN [tokens EXCEPT ![w] = NoTokens] ELSE tokens

Exchange(w, old, new, l) ==
    /\ pc' = [pc EXCEPT ![w] = l]
    /\ tokens' = [tokens EXCEPT ![w] = [old |-> old, new |-> new]]

Fault == faults < MaxFaults /\ faults' = faults + 1
Doubt(d) == Fault /\ doubts' = doubts \union {d}
NoFault == UNCHANGED <<faults, doubts>>

\* The mutex of the process, which every refresh of the account takes first.
MutexFree(w) == \A v \in Workers : Process[v] = Process[w] => pc[v] \notin Exclusive

\* Wrong variant: the key is set although another set it.
AcquireWithoutNX(w) ==
    /\ pc[w] = "idle"
    /\ MutexFree(w)
    /\ lock' = w /\ mine' = mine \union {w}
    /\ Goto(w, "reread")
    /\ UNCHANGED <<row, provider, authority, faults, doubts>>

\* SET NX with a lease, at any time, because what a request or a cycle knows
\* of the account may be stale.  An error of Redis, after which the key may
\* be set all the same, lets the refresh go on without it.
AcquireRefreshLock(w) ==
    /\ pc[w] = "idle"
    /\ MutexFree(w)
    /\ \/ lock = Nobody /\ lock' = w /\ mine' = mine \union {w} /\ NoFault
       \/ lock' \in {lock, IF lock = Nobody THEN w ELSE lock} /\ Doubt("lockless")
          /\ UNCHANGED mine
    /\ Goto(w, "reread")
    /\ UNCHANGED <<row, provider, authority>>

\* The row is read again under the locks.
Reread(w) ==
    /\ pc[w] = "reread"
    /\ IF row.status = "active" /\ row.due THEN Exchange(w, row.token, 0, "exchange")
       ELSE Goto(w, "release")
    /\ UNCHANGED <<row, provider, locks, authority, faults, doubts>>

\* What the provider does with a token it honours, and with one it rejects.
Rotate(old) ==
    /\ old \in valid /\ issued < MaxTokens
    /\ issued' = issued + 1
    /\ valid' = (valid \ {old}) \union {issued'}
    /\ spent' = spent \union {old}
    /\ UNCHANGED <<presented, denied>>

Reject(old) ==
    /\ old \notin valid
    /\ presented' = presented \union ({old} \intersect spent)
    /\ UNCHANGED <<valid, issued, spent, denied>>

\* executor.Refresh.  An answer that is lost, or later than the deadline of
\* the attempt, is dropped.
Refresh(w) ==
    /\ pc[w] = "exchange"
    /\ LET old == tokens[w].old
       IN \/ /\ Rotate(old)
             /\ \/ Exchange(w, old, issued', "persist") /\ NoFault
                \/ Goto(w, "release") /\ Doubt("lost")
          \/ /\ Reject(old)
             /\ Goto(w, "recover") /\ NoFault
    /\ UNCHANGED <<row, locks, authority>>

\* isNonRetryableRefreshError: a refusal of the account, not of its token,
\* condemns it as well.  One that a cycle takes for a failure of the provider,
\* and holds against no account, is StepFails.
RefreshDenied(w) ==
    /\ pc[w] = "exchange"
    /\ tokens[w].old \in valid
    /\ denied' = denied \union {tokens[w].old}
    /\ Goto(w, IF w \in Cycles THEN "give_up" ELSE "release")
    /\ UNCHANGED <<row, valid, issued, spent, presented, locks, authority, faults, doubts>>

\* A provider call that ignored the cancellation returns after the lease: its
\* answer, whatever it is, is dropped.
LateAnswer(w) ==
    /\ pc[w] = "late"
    /\ Rotate(tokens[w].old) \/ Reject(tokens[w].old) \/ UNCHANGED provider
    /\ Goto(w, "release")
    /\ UNCHANGED <<row, locks, authority, faults, doubts>>

\* invalid_grant: another worker may have exchanged the token first.
TryRecoverFromRefreshRace(w) ==
    /\ pc[w] = "recover"
    /\ Goto(w, IF row.token = tokens[w].old /\ w \in Cycles THEN "give_up" ELSE "release")
    /\ UNCHANGED <<row, provider, locks, authority, faults, doubts>>

\* Wrong variant: nobody's credentials are compared.
PersistBlindly(w) ==
    /\ pc[w] = "persist"
    /\ row' = [row EXCEPT !.token = tokens[w].new, !.due = FALSE]
    /\ Goto(w, "release")
    /\ UNCHANGED <<provider, locks, authority, faults, doubts>>

\* UpdateGrokOAuthCredentialsIfUnchanged, or persistAccountCredentials.
Persist(w) ==
    /\ pc[w] = "persist"
    /\ IF kind = "grok" /\ row.token # tokens[w].old THEN UNCHANGED row
       ELSE row' = [row EXCEPT !.token = tokens[w].new, !.due = FALSE]
    /\ Goto(w, "release")
    /\ UNCHANGED <<provider, locks, authority, faults, doubts>>

\* The key is deleted without asking whose it is; an error is only logged.
ReleaseRefreshLock(w) ==
    /\ pc[w] \in {"release", "give_up"}
    /\ Goto(w, IF pc[w] = "give_up" THEN "condemn" ELSE "idle")
    /\ mine' = mine \ {w}
    /\ \/ lock' = (IF w \in mine THEN Nobody ELSE lock) /\ NoFault
       \/ w \in mine /\ Fault /\ UNCHANGED <<lock, doubts>>
    /\ UNCHANGED <<row, provider, authority>>

\* Wrong variant: an account that was authorised meanwhile is not spared.
SetErrorBlindly(w) ==
    /\ pc[w] = "condemn"
    /\ row' = [row EXCEPT !.status = "error"]
    /\ Goto(w, "idle")
    /\ UNCHANGED <<provider, locks, authority, faults, doubts>>

\* SetGrokOAuthRefreshErrorIfCredentialsUnchanged, or SetError.
SetError(w) ==
    /\ pc[w] = "condemn"
    /\ IF kind = "grok" /\ row.token # tokens[w].old THEN UNCHANGED row
       ELSE row' = [row EXCEPT !.status = "error"]
    /\ Goto(w, "idle")
    /\ UNCHANGED <<provider, locks, authority, faults, doubts>>

-----------------------------------------------------------------------------
(* Faults, time and the rest of the world.                                   *)

\* A step fails without effect, or a write without its reply; what was
\* exchanged and is not written is lost.
StepFails(w) ==
    /\ pc[w] \in {"reread", "exchange", "recover", "persist", "condemn"}
    /\ Goto(w, CASE pc[w] = "recover" /\ w \in Cycles -> "give_up"
                 [] pc[w] = "condemn"                 -> "idle"
                 [] OTHER                             -> "release")
    /\ IF pc[w] = "persist" THEN Doubt("lost") ELSE Fault /\ UNCHANGED doubts
    /\ UNCHANGED <<row, provider, locks, authority>>

\* A process dies with all its workers; its Redis keys stay.
Crash(w) ==
    /\ LET dead == {v \in Workers : Process[v] = Process[w]}
       IN /\ \E v \in dead : pc[v] # "idle"
          /\ pc' = [v \in Workers |-> IF v \in dead THEN "idle" ELSE pc[v]]
          /\ tokens' = [v \in Workers |-> IF v \in dead THEN NoTokens ELSE tokens[v]]
          /\ mine' = mine \ dead
          /\ IF \E v \in dead : pc[v] = "persist" THEN Doubt("lost")
             ELSE Fault /\ UNCHANGED doubts
    /\ UNCHANGED <<row, provider, lock, authority>>

\* Wrong variant: the key of a dead worker has no lease.
LeaseNeverEnds == FALSE /\ UNCHANGED vars

\* The lease of a key that no worker will delete ends.
LeaseEnds ==
    /\ lock # Nobody /\ lock \notin mine
    /\ lock' = Nobody
    /\ UNCHANGED <<row, provider, mine, local, authority, faults, doubts>>

\* A worker outlasts its lease.  The attempts of a cycle are cut off before
\* that, unless the call of the provider ignores it.
LeaseLapses ==
    /\ lock \in mine
    /\ lock' = Nobody
    /\ \/ lock \notin Cycles /\ UNCHANGED pc
       \/ lock \in Cycles /\ pc[lock] = "exchange" /\ pc' = [pc EXCEPT ![lock] = "late"]
    /\ Doubt("lapse")
    /\ UNCHANGED <<row, provider, mine, tokens, authority>>

AccessTokenExpires ==
    /\ ~row.due
    /\ issued < MaxTokens
    /\ row' = [row EXCEPT !.due = TRUE]
    /\ UNCHANGED <<provider, locks, local, authority, faults, doubts>>

\* ApplyOAuthCredentials: a new authorisation, after which the provider may
\* or may not honour the tokens of the old one; the error is cleared next.
Reauthorise ==
    /\ admin = "idle"
    /\ issued < MaxTokens
    /\ issued' = issued + 1
    /\ row' = [row EXCEPT !.token = issued', !.due = FALSE]
    /\ valid' \in {{issued'}, valid \union {issued'}}
    /\ admin' = "clearing" /\ reauthorised' = TRUE
    /\ UNCHANGED <<kind, spent, presented, denied, locks, local, faults, doubts>>

ClearError ==
    /\ admin = "clearing"
    /\ admin' = "idle"
    /\ \/ row' = [row EXCEPT !.status = "active"] /\ UNCHANGED faults
       \/ Fault /\ UNCHANGED row
    /\ UNCHANGED <<kind, provider, locks, local, reauthorised, doubts>>

Progress(w) ==
    \/ Reread(w) \/ Refresh(w) \/ RefreshDenied(w) \/ LateAnswer(w)
    \/ TryRecoverFromRefreshRace(w) \/ Persist(w) \/ ReleaseRefreshLock(w) \/ SetError(w)

Next ==
    \/ \E w \in Workers :
          AcquireRefreshLock(w) \/ Progress(w) \/ StepFails(w) \/ Crash(w)
    \/ LeaseEnds \/ LeaseLapses \/ AccessTokenExpires \/ Reauthorise \/ ClearError

Spec == Init /\ [][Next]_vars

\* Workers go on, cycles return, leases end, and a cycle does not find the
\* key taken by requests for ever.
Fairness ==
    /\ \A w \in Workers : WF_vars(Progress(w))
    /\ \A w \in Cycles : SF_vars(lock = Nobody /\ AcquireRefreshLock(w))
    /\ WF_vars(LeaseEnds)

FairSpec == Spec /\ Fairness

-----------------------------------------------------------------------------
(* Properties.                                                               *)

Apart == doubts \intersect {"lapse", "lockless"} = {}

\* A refresh token is presented once, however many workers want the account
\* refreshed, unless a worker outlasts its lease, Redis fails, or the
\* answer to an exchange is lost or cannot be stored.
TokenSpentOnce == doubts = {} => presented = {}

\* An account is set to error only for the credentials it has: the provider
\* rejects its token, or refused the account when that token was presented; a
\* Grok account in every case.  Of any other account this holds unless the
\* exclusion was broken, it was authorised anew meanwhile, or a refusal left it
\* a token that somebody could still exchange: SetError does not look.
ErrorIsDeserved ==
    [][row.status = "active" /\ row'.status = "error" =>
          \/ row.token \notin valid
          \/ row.token \in denied
          \/ kind = "other" /\ (reauthorised \/ ~Apart \/ denied # {})]_vars

\* Credentials give way to newer ones only: a late refresh overwrites neither
\* another's nor a new authorisation, with the same exception.
NewestCredentialsStay ==
    [][row'.token < row.token => kind = "other" /\ (reauthorised \/ ~Apart)]_vars

\* A token that is about to expire is refreshed, or the account is set to
\* error, whoever died with the lock; until the provider is out of tokens.
RefreshedOrFlagged ==
    row.due /\ row.status = "active" ~>
        ~row.due \/ row.status = "error" \/ issued = MaxTokens
=============================================================================
