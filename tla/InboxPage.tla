------------------------------ MODULE InboxPage -----------------------------
(***************************************************************************)
(* The capture inbox of the workspace: QuickCaptureInbox.tsx, which is     *)
(* rendered for the household of the workspace with its wallets.  What a   *)
(* capture that cannot be sent becomes is in CaptureOutbox.                *)
(***************************************************************************)
EXTENDS PageFrame

InboxShown == Shown("workspace")

\* The submit buttons and Confirm are disabled while saving.
FormsEnabled == InboxShown /\ ~busy

\* An editor is open on a capture, and its capture is listed.
EditorShown == InboxShown /\ review # NoHousehold /\ items # NoHousehold

\* handleQuickCapture
Capture ==
    /\ FormsEnabled /\ Room
    /\ busy' = TRUE
    /\ Starts(Call("createCapture", prop, NoHousehold, NoHousehold))
    /\ UNCHANGED <<frameVars, loadedVars, formVars, switching, stale>>

\* It offers the wallet of the capture, or else the first wallet.
BeginReview ==
    /\ InboxShown
    /\ items # NoHousehold
    /\ review' \in {items, wallets} \ {NoHousehold}
    /\ UNCHANGED <<frameVars, loadedVars, choice, second, flagVars, jobs>>

CancelReview ==
    /\ EditorShown
    /\ review' = NoHousehold
    /\ UNCHANGED <<frameVars, loadedVars, choice, second, flagVars, jobs>>

SaveReview ==
    /\ EditorShown /\ FormsEnabled /\ Room
    /\ busy' = TRUE
    /\ Starts(Call("reviewCapture", prop, items, review))
    /\ UNCHANGED <<frameVars, loadedVars, formVars, switching, stale>>

Confirm ==
    /\ FormsEnabled /\ Room
    /\ items # NoHousehold
    /\ busy' = TRUE
    /\ Starts(Call("confirmCapture", prop, items, NoHousehold))
    /\ UNCHANGED <<frameVars, loadedVars, formVars, switching, stale>>

\* The inbox is read again without waiting for it, and the review is closed;
\* after a confirmation the whole workspace is read, and waited for.
CaptureServed(j) ==
    /\ j.live /\ j.call \in CaptureWrites
    /\ Served(j)
    /\ GoesOn(j, {Read(IF j.call = "confirmCapture" THEN "confirmed" ELSE "items", j.household)})
    /\ busy' = (busy /\ j.call = "confirmCapture")
    /\ review' = IF j.call = "reviewCapture" THEN NoHousehold ELSE review
    /\ UNCHANGED <<frameVars, loadedVars, choice, second, switching, stale>>

CaptureFails(j) ==
    /\ j.live /\ j.call \in CaptureWrites
    /\ busy' = FALSE
    /\ Done(j)
    /\ UNCHANGED <<frameVars, loadedVars, formVars, switching, stale>>

\* refreshInbox: the captures and the budgets of the review.  An editor of a
\* capture that is not listed any more is hidden; here it is closed.
InboxListed(j) ==
    /\ route = "workspace"
    /\ j.live /\ j.call = "items"
    /\ items' = j.household
    /\ review' = IF items = j.household THEN review ELSE NoHousehold
    /\ Late(j.household)
    /\ Done(j)
    /\ UNCHANGED <<frameVars, wallets, budgets, choice, second, busy, switching>>

InboxNotListed(j) ==
    /\ route = "workspace"
    /\ j.live /\ j.call = "items"
    /\ stale' = TRUE
    /\ Done(j)
    /\ UNCHANGED <<frameVars, loadedVars, formVars, busy, switching>>

\* Promise.all of refreshInbox and refresh: each is served or fails.
Reread(j) ==
    /\ j.live /\ j.call = "confirmed"
    /\ \E inbox, ledger \in BOOLEAN :
         /\ items' = IF inbox THEN j.household ELSE items
         /\ wallets' = IF ledger THEN j.household ELSE wallets
         /\ budgets' = IF ledger THEN j.household ELSE budgets
         /\ review' = IF (inbox /\ ledger) \/ items' # items THEN NoHousehold ELSE review
         /\ stale' = (stale \/ ~inbox \/ ~ledger \/ j.household # prop)
    /\ busy' = FALSE
    /\ Done(j)
    /\ UNCHANGED <<frameVars, choice, second, switching>>

CaptureEnds(j) == CaptureServed(j) \/ CaptureFails(j)
InboxEnds(j) == InboxListed(j) \/ InboxNotListed(j)
InboxNext ==
    \/ Capture \/ BeginReview \/ CancelReview \/ SaveReview \/ Confirm
    \/ \E j \in jobs : CaptureEnds(j) \/ InboxEnds(j) \/ Reread(j)
=============================================================================
