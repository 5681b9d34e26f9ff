--------------------------- MODULE ProfileSettings ---------------------------
(* The user's profile and look (UpdateProfileModal, ThemeApplier): a theme or *)
(* a mode is applied to the document at once and put back when the request    *)
(* fails; the answer to any update carries the whole row, which becomes the   *)
(* user of the page, whose look an effect applies when it changes.            *)
EXTENDS Integers, Sequences, FiniteSets

CONSTANTS Looks, MaxUpdates

ASSUME ProfileAssumption == Looks # {} /\ MaxUpdates \in Nat

VARIABLES
  userRow,      \* the user on the server
  user,         \* the user of the page
  applied,      \* the look of the document
  savingLook,   \* savingTheme and savingMode, and isLoading of the form
  profileOpen,
  updates,      \* the requests, answered ones included
  lostUpdate,   \* history: an answer was lost after the server wrote
  newest,       \* history: the newest write an answer has come for
  outOfOrder,   \* history: an answer came after that of a later write
  twice         \* history: a field was changed while its request was under way

profileVars == <<userRow, user, applied, savingLook, profileOpen, updates, lostUpdate, newest, outOfOrder, twice>>
histories == <<newest, outOfOrder>>

LookFields == {"theme", "mode"}
UserFields == LookFields \cup {"name"}
Users == [UserFields -> Looks]

ProfileTypeOK ==
  /\ userRow \in Users /\ user \in Users /\ applied \in [LookFields -> Looks]
  /\ savingLook \subseteq DOMAIN updates /\ {profileOpen, lostUpdate, outOfOrder, twice} \subseteq BOOLEAN
  /\ updates \in Seq([field : UserFields, value : Looks, previous : Looks, reply : Users, write : 0..MaxUpdates,
                      stage : {"sent", "served", "done"}])
  /\ newest \in 0..MaxUpdates

ProfileInit ==
  /\ \E x \in Looks : userRow = [f \in UserFields |-> x]
  /\ user = userRow /\ applied = [f \in LookFields |-> user[f]]
  /\ savingLook = {} /\ profileOpen = TRUE /\ updates = <<>> /\ lostUpdate = FALSE
  /\ newest = 0 /\ outOfOrder = FALSE /\ twice = FALSE

Pending(f) == \E n \in DOMAIN updates : updates[n].stage # "done" /\ updates[n].field = f
AnyPending == \E f \in UserFields : Pending(f)
Writes == Cardinality({n \in DOMAIN updates : updates[n].write > 0})

\* handleSelectTheme, handleSelectMode, and the form's onSubmit.
ChangeProfile(f, x) ==
  /\ profileOpen /\ (\A n \in savingLook : updates[n].field # f) /\ (f \in LookFields => x # user[f])
  /\ Len(updates) < MaxUpdates
  /\ savingLook' = savingLook \cup {Len(updates) + 1}
  /\ applied' = IF f \in LookFields THEN [applied EXCEPT ![f] = x] ELSE applied
  /\ updates' = Append(updates, [field |-> f, value |-> x, previous |-> user[f], reply |-> user, write |-> 0, stage |-> "sent"])
  /\ twice' = (twice \/ Pending(f))
  /\ UNCHANGED <<userRow, user, profileOpen, lostUpdate, histories>>

\* an update that answers with the row as it was read before
ServeUpdateRead(n) ==
  /\ updates[n].stage = "sent"
  /\ userRow' = [userRow EXCEPT ![updates[n].field] = updates[n].value]
  /\ updates' = [updates EXCEPT ![n].stage = "served", ![n].reply = userRow, ![n].write = Writes + 1]
  /\ UNCHANGED <<user, applied, savingLook, profileOpen, lostUpdate, histories, twice>>

\* UpdateUser writes the fields it was given and returns the row.
ServeUpdate(n) ==
  /\ updates[n].stage = "sent"
  /\ userRow' = [userRow EXCEPT ![updates[n].field] = updates[n].value]
  /\ updates' = [updates EXCEPT ![n].stage = "served", ![n].reply = userRow', ![n].write = Writes + 1]
  /\ UNCHANGED <<user, applied, savingLook, profileOpen, lostUpdate, histories, twice>>

\* The flags are those of the modal that is open: an update of an earlier one has none.
UpdateDone(n) == updates' = [updates EXCEPT ![n].stage = "done"] /\ savingLook' = savingLook \ {n}

\* updateUser, and the effects of ThemeApplier.
ProfileUpdated(n) ==
  LET row == updates[n].reply IN
  /\ updates[n].stage = "served" /\ UpdateDone(n) /\ user' = row
  /\ applied' = [f \in LookFields |-> IF row[f] # user[f] THEN row[f] ELSE applied[f]]
  /\ profileOpen' = (profileOpen /\ updates[n].field # "name")
  /\ outOfOrder' = (outOfOrder \/ updates[n].write < newest)
  /\ newest' = IF updates[n].write > newest THEN updates[n].write ELSE newest
  /\ UNCHANGED <<userRow, lostUpdate, twice>>

ProfileRefused(n) ==
  /\ updates[n].stage \in {"sent", "served"} /\ UpdateDone(n)
  /\ lostUpdate' = (lostUpdate \/ updates[n].stage = "served")
  /\ applied' = IF updates[n].field \in LookFields THEN [applied EXCEPT ![updates[n].field] = updates[n].previous]
                ELSE applied
  /\ UNCHANGED <<userRow, user, profileOpen, histories, twice>>

ToggleProfile ==
  /\ profileOpen' = ~profileOpen /\ savingLook' = {}
  /\ UNCHANGED <<userRow, user, applied, updates, lostUpdate, histories, twice>>

ProfileNext ==
  \/ \E f \in UserFields, x \in Looks : ChangeProfile(f, x)
  \/ \E n \in DOMAIN updates : ServeUpdate(n) \/ ProfileUpdated(n) \/ ProfileRefused(n)
  \/ ToggleProfile

-----------------------------------------------------------------------------
(* With no update under way, no answer lost and the answers in the order of   *)
(* the writes, the page's user is the server's, though themes, modes and the  *)
(* name are saved at the same time.                                           *)
UserIsServer == ~AnyPending /\ ~lostUpdate /\ ~outOfOrder => user = userRow

(* Then the document looks as the page's user has it, if no field was changed *)
(* again before its answer: a refused preview is put back, and one that is    *)
(* kept is not.                                                               *)
LookIsUsers ==
  ~AnyPending /\ ~lostUpdate /\ ~outOfOrder /\ ~twice => \A f \in LookFields : applied[f] = user[f]

(* The page's user is the server's and the document looks like it.            *)
ProfileHolds == UserIsServer /\ LookIsUsers
=============================================================================
