----------------------------- MODULE EdgeWindows ----------------------------
(***************************************************************************)
(* Which window the edge computer says a row of readings belongs to:       *)
(* WindowTracker, fed by the receive loop with the markers and bundles of  *)
(* one node.  A bundle is its window here, and gives rows that are stamped *)
(* alike.  The node and the air are modelled as far as they decide what    *)
(* the edge hears: markers leave in order, a bundle may leave late or once *)
(* more, each is heard or not (NodeTx).                                    *)
(***************************************************************************)
EXTENDS Integers

CONSTANTS MaxWindow,   \* bound: windows of a boot
          MaxRestarts  \* bound: reboots, stale syncs, edge restarts

ASSUME WindowAssumption == MaxWindow \in Nat /\ MaxRestarts \in Nat

VARIABLES window,    \* the node: _windowId
          inWindow,  \* between BEGIN and END
          fresh,     \* its sync is fresh; without, it calls AWAKEN and ends no window
          pend,      \* windows of bundles that may still leave
          tracker,   \* the edge: _NodeWindow
          row,       \* the last row written; prompt: in its window, whose BEGIN had been heard
          begun,     \* history: windows whose BEGIN the tracker has heard and not forgotten
          firsts,    \* history: how many rows were marked first since the last BEGIN heard
          restarts   \* history: how often something restarted

edgeRows == <<tracker, row, begun, firsts>>
windowVars == <<window, inWindow, fresh, pend, edgeRows, restarts>>

Windows == 0 .. MaxWindow
NoWindow == -1

-----------------------------------------------------------------------------
\* WindowTracker.

Trackers == [id : Windows \cup {NoWindow}, awaiting : BOOLEAN, open : BOOLEAN]
Rows     == [w : Windows, id : Windows \cup {NoWindow}, prompt : BOOLEAN]

NotTracked == [id |-> NoWindow, awaiting |-> FALSE, open |-> FALSE]

\* Slip: a BEGIN does not end a window that is open.
BegunUnlessOpen(t, w) == IF t.open THEN t ELSE [id |-> w, awaiting |-> TRUE, open |-> TRUE]

WindowBegun(t, w) == [id |-> w, awaiting |-> TRUE, open |-> TRUE]

\* Slip: a window without a row still waits for its first one.
EndedWaiting(t, w) == [t EXCEPT !.id = w, !.open = FALSE]

WindowEnded(t, w) == [id |-> w, awaiting |-> FALSE, open |-> FALSE]

MarksFirst(t) == t.id # NoWindow /\ t.awaiting /\ t.open

\* Slip: the mark is not taken off.
AnnotatedOften(t) == t

Annotated(t) == IF MarksFirst(t) THEN [t EXCEPT !.awaiting = FALSE] ELSE t

NoRow == [w |-> 0, id |-> NoWindow, prompt |-> FALSE]

HearBundle(w) ==
  /\ tracker' = Annotated(tracker)
  /\ row' = [w |-> w, id |-> tracker.id, prompt |-> w = window /\ w \in begun]
  /\ firsts' = firsts + (IF MarksFirst(tracker) THEN 1 ELSE 0)
  /\ UNCHANGED begun

HearBegin(w) ==
  /\ tracker' = WindowBegun(tracker, w)
  /\ begun' = begun \cup {w} /\ firsts' = 0
  /\ UNCHANGED row

HearEnd(w) ==
  /\ tracker' = WindowEnded(tracker, w)
  /\ UNCHANGED <<row, begun, firsts>>

\* on_reboot, for every AWAKEN.
HearAwakenCall ==
  /\ tracker' = NotTracked
  /\ begun' = {} /\ firsts' = 0
  /\ UNCHANGED row

Unheard == UNCHANGED edgeRows

-----------------------------------------------------------------------------
\* The node and the air.

BeginWindow ==
  /\ fresh /\ ~inWindow /\ window < MaxWindow
  /\ window' = window + 1 /\ inWindow' = TRUE
  /\ HearBegin(window + 1) \/ Unheard
  /\ UNCHANGED <<fresh, pend, restarts>>

EndWindow ==
  /\ fresh /\ inWindow /\ inWindow' = FALSE
  /\ HearEnd(window) \/ Unheard
  /\ UNCHANGED <<window, fresh, pend, restarts>>

SendBundle ==
  /\ fresh /\ inWindow
  /\ pend' = pend \cup {window}
  /\ HearBundle(window) \/ Unheard
  /\ UNCHANGED <<window, inWindow, fresh, restarts>>

SendLate(w) ==
  /\ HearBundle(w)
  /\ UNCHANGED <<window, inWindow, fresh, pend, restarts>>

\* Acknowledged, or too old.
Forget(w) ==
  /\ pend' = pend \ {w}
  /\ UNCHANGED <<window, inWindow, fresh, edgeRows, restarts>>

Restart == restarts < MaxRestarts /\ restarts' = restarts + 1

SyncIsLost ==
  /\ Restart
  /\ fresh /\ fresh' = FALSE
  /\ UNCHANGED <<window, inWindow, pend, edgeRows>>

CallsAwaken ==
  /\ ~fresh
  /\ HearAwakenCall
  /\ UNCHANGED <<window, inWindow, fresh, pend, restarts>>

SyncIsHeard ==
  /\ ~fresh /\ fresh' = TRUE
  /\ UNCHANGED <<window, inWindow, pend, edgeRows, restarts>>

NodeStartsAgain ==
  /\ Restart
  /\ window' = 0 /\ inWindow' = FALSE /\ fresh' = FALSE /\ pend' = {}
  /\ begun' = {}
  /\ UNCHANGED <<tracker, row, firsts>>

EdgeStartsAgain ==
  /\ Restart
  /\ tracker' = NotTracked /\ row' = NoRow /\ begun' = {} /\ firsts' = 0
  /\ UNCHANGED <<window, inWindow, fresh, pend>>

WindowInit ==
  /\ window = 0 /\ inWindow = FALSE /\ fresh = FALSE /\ pend = {}
  /\ tracker = NotTracked /\ row = NoRow /\ begun = {} /\ firsts = 0
  /\ restarts = 0

WindowNext ==
  \/ BeginWindow \/ EndWindow \/ SendBundle
  \/ \E w \in pend : SendLate(w) \/ Forget(w)
  \/ SyncIsLost \/ CallsAwaken \/ SyncIsHeard
  \/ NodeStartsAgain \/ EdgeStartsAgain

WindowSpec == WindowInit /\ [][WindowNext]_windowVars

-----------------------------------------------------------------------------
(***************************************************************************)
(* A row that comes before the node's next window, from a window whose     *)
(* BEGIN was heard, is stamped with that window, whatever else is lost or  *)
(* came again before it, END and an open window before it among them.      *)
(***************************************************************************)
PromptRowsAreStamped == row.prompt => row.id = row.w

(***************************************************************************)
(* At most one row of a window is marked as its first, whatever comes late *)
(* or twice, as long as its BEGIN is not sent again.                       *)
(***************************************************************************)
OneRowIsFirst == firsts <= 1

WindowTypeOK ==
  /\ window \in Windows /\ inWindow \in BOOLEAN /\ fresh \in BOOLEAN
  /\ pend \subseteq Windows /\ begun \subseteq Windows
  /\ tracker \in Trackers /\ row \in Rows
  /\ tracker.awaiting => tracker.open
  /\ firsts \in Nat /\ restarts \in 0 .. MaxRestarts

(***************************************************************************)
(* window_state.py: window_id is "stamped on every row of the window" and  *)
(* "keeps working when a marker is lost".  A row is never stamped with     *)
(* another window than its own.                                            *)
(***************************************************************************)
RowsOfTheirWindow == row.id \in {NoWindow, row.w}

=============================================================================
