---------------------------- MODULE ApplyDomains ----------------------------
(***************************************************************************)
(* Step 8 of `--apply` for the domain of a mailbox                         *)
(* (migrate/apply_domains.go, addon_label_preflight.go,                    *)
(* selected_domains.go, cpanel/token.go, cpanel/addon.go): a domain that   *)
(* the destination lacks is created, an addon domain with a temporary      *)
(* full-access API token, and the list that is read afterwards decides     *)
(* whether the mail of the domain is migrated or skipped.  Every call may  *)
(* fail, its answer may be lost, the list may lag behind, and Ctrl-C may   *)
(* come at any moment.                                                     *)
(***************************************************************************)
EXTENDS Naturals, FiniteSets

CONSTANT MaxFaults    \* bound on failed calls, lost answers and interrupts

\* inventory: the source's domain list has the domain; label: another domain
\* reserves the internal subdomain that an addon would get; others: the run
\* creates further domains, so it reads the list again.
DomainFacts == [kind : {"addon", "sub"}, inventory : BOOLEAN,
                label : {"free", "taken"}, others : BOOLEAN]

VARIABLES
    facts,       \* what is known of the domain, see DomainFacts
    hosted,      \* the destination has the domain
    tokens,      \* the tool's API tokens on the destination
    seen,        \* the domain is in the run's copy of the destination's list
    failed, blocked,    \* FailedDomains and BlockedDomains have the domain
    cancelled,   \* the run's context
    unrevoked,   \* a call that revokes the run's own token failed
    pc, exit,    \* of the whole run
    faults

domainVars == <<facts, hosted, tokens, seen, failed, blocked, cancelled, unrevoked>>

DomainSteps == {"domains", "leftovers", "token", "create", "revoke", "reread"}

-----------------------------------------------------------------------------
UseFault == faults < MaxFaults /\ faults' = faults + 1

\* A call under the run's context fails when the context is cancelled, and
\* otherwise as a fault.
CallFails == IF cancelled THEN UNCHANGED faults ELSE UseFault
CallWorks == ~cancelled /\ UNCHANGED faults

\* StepError: the whole run ends.
AbortStep == pc' = "done" /\ exit' = "issues"

\* updateSelectedDomainCoverage and preflightAddonLabelCollisions, for a list
\* that has the domain or has it not.
Uncovered(listed) == ~facts.inventory /\ ~listed
Collides(listed)  == facts.inventory /\ ~listed /\ facts.kind = "addon" /\ facts.label = "taken"
ToCreate(listed)  == facts.inventory /\ ~listed /\ ~Collides(listed)

\* The list as it is, or a list that does not have a new domain yet.
ReadList(listed) == \/ listed = hosted /\ CallWorks
                    \/ hosted /\ listed = FALSE /\ ~cancelled /\ UseFault

PlanDomains ==
    /\ pc = "domains"
    /\ \/ \E listed \in BOOLEAN :
             /\ ReadList(listed)
             /\ seen' = listed
             /\ blocked' = (Uncovered(listed) \/ Collides(listed))
             /\ pc' = CASE ToCreate(listed) /\ facts.kind = "addon" -> "leftovers"
                        [] ToCreate(listed) /\ facts.kind = "sub"   -> "create"
                        [] ~ToCreate(listed) -> IF facts.others THEN "reread" ELSE "gate"
             /\ UNCHANGED exit
       \/ CallFails /\ AbortStep /\ UNCHANGED <<seen, blocked>>
    /\ UNCHANGED <<facts, hosted, tokens, failed, cancelled, unrevoked>>

\* revokeLeftoverTokens is best effort.
RevokeLeftovers ==
    /\ pc = "leftovers" /\ pc' = "token"
    /\ \/ CallWorks /\ tokens' = tokens \ {"old"}
       \/ CallFails /\ UNCHANGED tokens
    /\ UNCHANGED <<facts, hosted, seen, failed, blocked, cancelled, unrevoked, exit>>

\* CreateFullAccessToken.  After an error, or an answer without a secret or
\* with a wrong expiry, the token that may exist is revoked as well.
CreateToken ==
    /\ pc = "token"
    /\ \/ CallWorks /\ tokens' = tokens \cup {"own"} /\ pc' = "create"
       \/ /\ CallFails /\ pc' = "revoke"
          /\ \E left \in SUBSET {"own"} : tokens' = tokens \cup left
    /\ UNCHANGED <<facts, hosted, seen, failed, blocked, cancelled, unrevoked, exit>>

AfterAddonIfOk(ok) == IF ok THEN "revoke" ELSE "reread"

\* The revocation follows whatever AddAddonDomain returned.
AfterAddon(ok) == "revoke"

\* AddAddonDomain and AddSubdomain.  A domain that exists is refused; a call
\* may be carried out without an answer, and may claim what it did not do.
CreateDomain ==
    /\ pc = "create"
    /\ \E ok, made \in BOOLEAN :
          /\ \/ ok = ~hosted /\ made = ok /\ CallWorks
             \/ ~ok /\ cancelled /\ UNCHANGED faults
             \/ ~(ok /\ made) /\ ~cancelled /\ UseFault
          /\ hosted' = (hosted \/ made)
          /\ pc' = IF facts.kind = "addon" THEN AfterAddon(ok) ELSE "reread"
    /\ UNCHANGED <<facts, tokens, seen, failed, blocked, cancelled, unrevoked, exit>>

\* addonTokenRevokeGuard and revokeInvalidToken, under a context of their own.
RevokeToken ==
    /\ pc = "revoke" /\ pc' = "reread"
    /\ \/ tokens' = tokens \ {"own"} /\ UNCHANGED <<unrevoked, faults>>
       \/ UseFault /\ unrevoked' = TRUE /\ UNCHANGED tokens
    /\ UNCHANGED <<facts, hosted, seen, failed, blocked, cancelled, exit>>

\* reconcileDomainErrors and markAbsentCreatedDomainsFailed: a domain that was
\* to be created and is not in the list has failed, whatever the call returned.
CreationFailed(listed) == ToCreate(seen) /\ ~listed

\* The list decides; the blocked domains are found anew.
Reread ==
    /\ pc = "reread"
    /\ \/ \E listed \in BOOLEAN :
             /\ ReadList(listed)
             /\ seen' = listed
             /\ failed' = CreationFailed(listed)
             /\ blocked' = (Uncovered(listed) \/ Collides(listed))
             /\ pc' = "gate" /\ UNCHANGED exit
       \/ CallFails /\ AbortStep /\ UNCHANGED <<seen, failed, blocked>>
    /\ UNCHANGED <<facts, hosted, tokens, cancelled, unrevoked>>

\* Ctrl-C during the step: the next call under the run's context fails.
Cancel ==
    /\ pc \in DomainSteps /\ ~cancelled
    /\ UseFault /\ cancelled' = TRUE
    /\ UNCHANGED <<facts, hosted, tokens, seen, failed, blocked, unrevoked, pc, exit>>

ApplyDomain == \/ PlanDomains \/ RevokeLeftovers \/ CreateToken \/ CreateDomain
               \/ RevokeToken \/ Reread \/ Cancel

\* No full-access token of a run outlives its domain step, unless a call that
\* revokes it failed: not after a refused or interrupted creation and not
\* after an answer that was lost (addAddonWithTemporaryToken,
\* CreateFullAccessToken).
TokenRevoked == pc \notin {"create", "revoke"} /\ "own" \in tokens => unrevoked
=============================================================================
