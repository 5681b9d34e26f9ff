---------------------------- MODULE SettingsCard ----------------------------
(* A card of the settings page: the manager's SePay, PayOS or Zalo bot        *)
(* account.  The card asks the server for the status when it is mounted and   *)
(* after every save and deletion; the form is shown as long as no account is  *)
(* known to be configured, the buttons otherwise.                             *)
EXTENDS Integers

CONSTANTS MaxSaves    \* bound on the saves and deletions

ASSUME CardAssumption == MaxSaves \in Nat

VARIABLES
  card,          \* the card of this behaviour
  config,        \* the version configured on the server; 0 is none
  status,        \* the version the card shows as configured
  initialLoading,
  isEditing,
  confirming,    \* SePay's deleteDialogOpen
  submitting,    \* the save: "no", the key asked for, the save sent or served, the status awaited
  deleting,      \* the deletion, likewise
  statusCalls,   \* the status requests of the mount, the save and the deletion
  orders,        \* saves and deletions so far
  overlapped,    \* history: one was started while a request was under way
  unheard         \* history: a status request failed, or the answer to a change was lost

cardVars == <<card, config, status, initialLoading, isEditing, confirming, submitting, deleting, statusCalls,
              orders, overlapped, unheard>>

Cards == {"sepay", "payos", "zalo"}
Askers == {"mount", "save", "delete"}
Versions == 0..MaxSaves
Unasked == [stage |-> "none", version |-> 0]
StatusAsked == [stage |-> "sent", version |-> 0]

CardTypeOK ==
  /\ card \in Cards /\ {config, status} \subseteq Versions
  /\ {initialLoading, isEditing, confirming, overlapped, unheard} \subseteq BOOLEAN
  /\ submitting \in {"no", "key", "sent", "served", "status"} /\ deleting \in {"no", "sent", "served", "status"}
  /\ statusCalls \in [Askers -> [stage : {"none", "sent", "read"}, version : Versions]]
  /\ orders \in 0..MaxSaves

CardAtRest ==
  /\ status = 0 /\ isEditing = FALSE /\ confirming = FALSE /\ submitting = "no" /\ deleting = "no"
  /\ orders = config /\ overlapped = FALSE /\ unheard = FALSE

CardInit ==
  /\ card \in Cards /\ config \in 0..1 /\ config <= MaxSaves /\ initialLoading = TRUE
  /\ statusCalls = [a \in Askers |-> IF a = "mount" THEN StatusAsked ELSE Unasked]
  /\ CardAtRest

\* Another page is shown.
CardUnmounted ==
  /\ card = "sepay" /\ config = 0 /\ initialLoading = FALSE /\ statusCalls = [a \in Askers |-> Unasked]
  /\ CardAtRest

FormShown == status = 0 \/ isEditing
CardBusy == submitting # "no" \/ deleting # "no" \/ \E a \in Askers : statusCalls[a].stage # "none"
CardOrder == orders < MaxSaves /\ orders' = orders + 1 /\ overlapped' = (overlapped \/ CardBusy)

StatusRead(a) ==
  /\ statusCalls[a].stage = "sent"
  /\ statusCalls' = [statusCalls EXCEPT ![a] = [stage |-> "read", version |-> config]]
  /\ UNCHANGED <<card, config, status, initialLoading, isEditing, confirming, submitting, deleting, orders, overlapped, unheard>>

\* What each asker does when refreshStatus has ended.
StatusEnds(a) ==
  /\ statusCalls' = [statusCalls EXCEPT ![a] = Unasked]
  /\ initialLoading' = (initialLoading /\ a # "mount")
  /\ submitting' = IF a = "save" THEN "no" ELSE submitting
  /\ deleting' = IF a = "delete" THEN "no" ELSE deleting
  /\ UNCHANGED <<card, config, isEditing, confirming, orders, overlapped>>

StatusGiven(a) ==
  /\ statusCalls[a].stage = "read" /\ status' = statusCalls[a].version /\ StatusEnds(a) /\ UNCHANGED unheard

StatusFails(a) ==
  /\ statusCalls[a].stage # "none" /\ StatusEnds(a) /\ unheard' = TRUE /\ UNCHANGED status

\* The secrets are encrypted with the key the server gives.
StartSave ==
  /\ FormShown /\ submitting = "no" /\ submitting' = "key" /\ CardOrder
  /\ UNCHANGED <<card, config, status, initialLoading, isEditing, confirming, deleting, statusCalls, unheard>>

SaveGoesOn ==
  /\ \/ submitting = "key" /\ submitting' = "sent" /\ UNCHANGED config
     \/ submitting = "sent" /\ submitting' = "served" /\ config' = orders
  /\ UNCHANGED <<card, status, initialLoading, isEditing, confirming, deleting, statusCalls, orders, overlapped, unheard>>

\* a save that does not ask for the status
SaveAnsweredUnasked ==
  /\ submitting = "served" /\ submitting' = "no" /\ isEditing' = FALSE
  /\ UNCHANGED <<card, config, status, initialLoading, confirming, deleting, statusCalls, orders, overlapped, unheard>>

SaveAnswered ==
  /\ submitting = "served" /\ submitting' = "status" /\ isEditing' = FALSE
  /\ statusCalls' = [statusCalls EXCEPT !["save"] = StatusAsked]
  /\ UNCHANGED <<card, config, status, initialLoading, confirming, deleting, orders, overlapped, unheard>>

SaveFails ==
  /\ submitting \in {"key", "sent", "served"} /\ submitting' = "no" /\ unheard' = (unheard \/ submitting = "served")
  /\ UNCHANGED <<card, config, status, initialLoading, isEditing, confirming, deleting, statusCalls, orders, overlapped>>

\* The buttons; the bot has none that deletes, and only SePay's asks first.
EditCard ==
  /\ ~FormShown /\ isEditing' = TRUE
  /\ UNCHANGED <<card, config, status, initialLoading, confirming, submitting, deleting, statusCalls, orders, overlapped, unheard>>

CancelEditing ==
  /\ status # 0 /\ isEditing /\ submitting = "no" /\ isEditing' = FALSE
  /\ UNCHANGED <<card, config, status, initialLoading, confirming, submitting, deleting, statusCalls, orders, overlapped, unheard>>

ToggleConfirmation ==
  /\ card = "sepay" /\ ~FormShown /\ confirming' = ~confirming
  /\ UNCHANGED <<card, config, status, initialLoading, isEditing, submitting, deleting, statusCalls, orders, overlapped, unheard>>

StartDeletion ==
  /\ card # "zalo" /\ ~FormShown /\ deleting = "no" /\ (card = "sepay" => confirming)
  /\ deleting' = "sent" /\ CardOrder
  /\ UNCHANGED <<card, config, status, initialLoading, isEditing, confirming, submitting, statusCalls, unheard>>

DeletionGoesOn ==
  /\ deleting = "sent" /\ deleting' = "served" /\ config' = 0
  /\ UNCHANGED <<card, status, initialLoading, isEditing, confirming, submitting, statusCalls, orders, overlapped, unheard>>

CardDeleted ==
  /\ deleting = "served" /\ deleting' = "status" /\ isEditing' = FALSE /\ confirming' = FALSE
  /\ statusCalls' = [statusCalls EXCEPT !["delete"] = StatusAsked]
  /\ UNCHANGED <<card, config, status, initialLoading, submitting, orders, overlapped, unheard>>

CardNotDeleted ==
  /\ deleting \in {"sent", "served"} /\ deleting' = "no" /\ unheard' = (unheard \/ deleting = "served")
  /\ UNCHANGED <<card, config, status, initialLoading, isEditing, confirming, submitting, statusCalls, orders, overlapped>>

\* The handlers, with what follows each await.
HandleCardSave == SaveGoesOn \/ SaveAnswered \/ SaveFails
HandleCardDelete == DeletionGoesOn \/ CardDeleted \/ CardNotDeleted
RefreshStatus(a) == StatusRead(a) \/ StatusGiven(a) \/ StatusFails(a)

CardNext ==
  \/ StartSave \/ HandleCardSave \/ EditCard \/ CancelEditing \/ ToggleConfirmation
  \/ StartDeletion \/ HandleCardDelete
  \/ \E a \in Askers : RefreshStatus(a)

\* Every request of the card ends, and the handler that awaits it goes on.
CardFairness == WF_cardVars(HandleCardSave \/ HandleCardDelete \/ \E a \in Askers : RefreshStatus(a))

-----------------------------------------------------------------------------
\* A button that says it saves or deletes, or a card that is still loading.
CardWaits == submitting # "no" \/ deleting # "no" \/ initialLoading

(* A card at rest shows what is configured on the server, if the user awaited *)
(* what was under way before each save and deletion and no answer was lost.   *)
StatusIsServer == ~CardBusy /\ ~overlapped /\ ~unheard => status = config

=============================================================================
