----------------------------- MODULE Broadcast -----------------------------
(***************************************************************************)
(* The broadcast of handlers/admin/broadcast.py: an editor in an           *)
(* administrator's chat, whose draft is kept in the FSM of aiogram, and    *)
(* the loop that copies the draft to every user.  Every press and message  *)
(* is a coroutine of its own (start_polling), keyboards of old screens     *)
(* stay usable, and the storage is that of Dispatcher(): in memory, with   *)
(* calls that do not suspend.  So a step is what a handler does between    *)
(* two requests to Telegram or to the database.                            *)
(*                                                                         *)
(* An administrator's data are his own: one chat is modelled.  The rows of *)
(* buttons count as none or some; the audience and the editor's message    *)
(* are kept for texts only.                                                *)
(***************************************************************************)
EXTENDS Naturals, FiniteSets

CONSTANTS
  Drafts,    \* messages the administrator sends to be broadcast
  Readers,   \* ids of users
  Calls,     \* handlers under way at the same time
  NoDraft, NoReader

ASSUME BroadcastAssumption ==
  IsFiniteSet(Readers) /\ NoDraft \notin Drafts /\ NoReader \notin Readers

VARIABLES
  fsm,      \* the state of the chat
  draft,    \* bc_from_chat and bc_message_id
  buttons,  \* bc_buttons is not empty
  call,     \* call[c]: a handler between two requests
  used,     \* history: the messages that have been a draft
  copies,   \* history: copies[d][u]: how often d has come to u
  faces     \* history: faces[d]: with or without buttons

castVars == <<fsm, draft, buttons, call, used, copies, faces>>
editorVars == <<fsm, draft, buttons>>
history == <<used, copies, faces>>

NoCall == [pc |-> "none", what |-> NoDraft, keys |-> FALSE, todo |-> {}, next |-> NoReader,
           sent |-> 0, blocked |-> 0, failed |-> 0]

CastInit ==
  /\ fsm = "none" /\ draft = NoDraft /\ buttons = FALSE
  /\ call = [c \in Calls |-> NoCall]
  /\ used = {}
  /\ copies = [d \in Drafts |-> [u \in Readers |-> 0]]
  /\ faces = [d \in Drafts |-> {}]

Pends(c, pc) == call[c] = NoCall /\ call' = [call EXCEPT ![c].pc = pc]
Ended(c) == call' = [call EXCEPT ![c] = NoCall]
Erased == fsm' = "none" /\ draft' = NoDraft /\ buttons' = FALSE
-----------------------------------------------------------------------------
(* The editor *)

\* ask_broadcast: clear(), a new text, then the state; when the text cannot be
\* shown in any way, no state.
NewCast(c) == Pends(c, "opening") /\ Erased /\ UNCHANGED history

\* ask_add_button: a new text, then the state.
AskButtons(c) == Pends(c, "asking") /\ UNCHANGED <<editorVars, history>>

\* got_button_text, of a text that names buttons: they are stored, the editor is
\* shown, then the state is set.
GotButtons(c) ==
  /\ fsm = "adding"
  /\ Pends(c, "editing") /\ buttons' = TRUE
  /\ UNCHANGED <<fsm, draft, history>>

\* choose_audience: the users are read and counted, then the state is set.
ChooseAudience(c) == Pends(c, "counting") /\ UNCHANGED <<editorVars, history>>

After(pc) == CASE pc \in {"opening", "editing"} -> "waiting"
               [] pc = "asking" -> "adding"
               [] pc = "counting" -> "confirm"

\* What these handlers do at their end, whatever has happened to the chat since
\* they began; and their end when a request has failed.
SetState(c) ==
  /\ call[c].pc \in {"opening", "asking", "editing", "counting"}
  /\ fsm' = After(call[c].pc) /\ Ended(c)
  /\ UNCHANGED <<draft, buttons, history>>
Raises(c) ==
  /\ call[c].pc \in {"opening", "asking", "editing", "counting"}
  /\ Ended(c)
  /\ UNCHANGED <<editorVars, history>>

\* got_broadcast_message: a message that comes while the editor is shown takes
\* the place of the draft.
GotMessage(d) ==
  /\ fsm = "waiting" /\ d \notin used
  /\ draft' = d /\ buttons' = FALSE /\ used' = used \cup {d}
  /\ UNCHANGED <<fsm, call, copies, faces>>

ClearButtons == buttons' = FALSE /\ UNCHANGED <<fsm, draft, call, history>>
BackToEditor == fsm' = "waiting" /\ UNCHANGED <<draft, buttons, call, history>>

\* Handlers of other menus: clear(), or another state beside the same data.
Elsewhere ==
  /\ Erased \/ (fsm' \in {"none", "other"} /\ UNCHANGED <<draft, buttons>>)
  /\ UNCHANGED <<call, history>>
-----------------------------------------------------------------------------
(* do_broadcast *)

Holding(c) == call' = [call EXCEPT ![c] = [NoCall EXCEPT !.pc = "listing", !.what = draft,
                                                         !.keys = buttons]]

\* Mutant: the data are left for the next press.
ConfirmKept(c) ==
  /\ call[c] = NoCall /\ draft # NoDraft
  /\ Holding(c)
  /\ UNCHANGED <<editorVars, history>>

\* Whatever the state: the screen with the button may be an old one.  Without a
\* draft the handler fails.
Confirm(c) ==
  /\ call[c] = NoCall /\ draft # NoDraft
  /\ Holding(c) /\ Erased
  /\ UNCHANGED history

\* get_all_users: nobody, or an error, or the text that cannot be shown, is the
\* end of it, and the draft is gone.
Listed(c) ==
  /\ call[c].pc = "listing"
  /\ \/ Ended(c)
     \/ \E list \in SUBSET Readers \ {{}} :
          call' = [call EXCEPT ![c].pc = "sending", ![c].todo = list]
  /\ UNCHANGED <<editorVars, history>>

Arrives(c, u) ==
  /\ copies' = [copies EXCEPT ![call[c].what][u] = @ + 1]
  /\ faces' = [faces EXCEPT ![call[c].what] = @ \cup {call[c].keys}]
Lost == UNCHANGED <<copies, faces>>

\* On to the user after u.
Past(c, u, new) ==
  /\ call' = [call EXCEPT ![c] = [new EXCEPT !.pc = "sending", !.todo = @ \ {u},
                                             !.next = NoReader]]
  /\ UNCHANGED <<editorVars, used>>

Sending(c, u) == call[c].pc = "sending" /\ u \in call[c].todo

Sent(c, u) == Arrives(c, u) /\ Past(c, u, [call[c] EXCEPT !.sent = @ + 1])

\* An error, or no answer in six seconds: the copy may have come to the user.
Failed(c, u) == (Arrives(c, u) \/ Lost) /\ Past(c, u, [call[c] EXCEPT !.failed = @ + 1])

Forbidden(c, u) ==
  /\ Sending(c, u) /\ Lost
  /\ Past(c, u, [call[c] EXCEPT !.blocked = @ + 1])

\* TelegramRetryAfter: a pause and one more attempt, without a limit of time.
Flooded(c, u) ==
  /\ Sending(c, u)
  /\ call' = [call EXCEPT ![c].pc = "pause", ![c].next = u]
  /\ UNCHANGED <<editorVars, history>>

Copy(c, u) ==
  \/ Sending(c, u) /\ (Sent(c, u) \/ Failed(c, u))
  \/ Forbidden(c, u) \/ Flooded(c, u)
  \/ call[c].pc = "pause" /\ u = call[c].next /\ (Sent(c, u) \/ Failed(c, u))

Report(c) ==
  /\ call[c].pc = "sending" /\ call[c].todo = {}
  /\ Ended(c) /\ UNCHANGED <<editorVars, history>>

\* The bot is restarted: its memory is gone, and with it what was under way.
BotStops == Erased /\ call' = [c \in Calls |-> NoCall] /\ UNCHANGED history
-----------------------------------------------------------------------------
CastNext ==
  \/ \E c \in Calls :
       \/ NewCast(c) \/ AskButtons(c) \/ GotButtons(c) \/ ChooseAudience(c)
       \/ SetState(c) \/ Raises(c) \/ Confirm(c) \/ Listed(c) \/ Report(c)
       \/ \E u \in Readers : Copy(c, u)
  \/ \E d \in Drafts : GotMessage(d)
  \/ ClearButtons \/ BackToEditor \/ Elsewhere \/ BotStops

CastSpec == CastInit /\ [][CastNext]_castVars
-----------------------------------------------------------------------------
Sends(c) == call[c].pc \in {"sending", "pause"}

CastTypeOK ==
  /\ fsm \in {"none", "waiting", "adding", "confirm", "other"}
  /\ draft \in Drafts \cup {NoDraft} /\ buttons \in BOOLEAN
  /\ call \in [Calls -> [pc : {"none", "opening", "asking", "editing", "counting",
                               "listing", "sending", "pause"},
                         what : Drafts \cup {NoDraft}, keys : BOOLEAN,
                         todo : SUBSET Readers, next : Readers \cup {NoReader},
                         sent : Nat, blocked : Nat, failed : Nat]]
  /\ used \subseteq Drafts
  /\ copies \in [Drafts -> [Readers -> Nat]]
  /\ faces \in [Drafts -> SUBSET BOOLEAN]

\* However often the button is pressed, whichever screen it is on, and whatever
\* is done in the editor meanwhile: a draft comes to a user once at most, and to
\* all users with the same buttons; and those who have got it are no fewer than
\* the progress text says, and no more than it says with the errors.
OneCopyEach ==
  /\ \A d \in Drafts : /\ \A u \in Readers : copies[d][u] <= 1
                       /\ Cardinality(faces[d]) <= 1
  /\ \A c \in Calls : Sends(c) =>
       LET got == {u \in Readers : copies[call[c].what][u] > 0}
       IN  call[c].sent <= Cardinality(got) /\ Cardinality(got) <= call[c].sent + call[c].failed
=============================================================================
