------------------------------- MODULE Terminal -------------------------------
(***************************************************************************)
(* One pane of the keep-alive terminal pool (components/terminal): the      *)
(* stream of PTY bytes from the core to the emulator.  The core numbers the *)
(* chunks it records; an attachment replays its scrollback and then         *)
(* forwards what is published; the pane queues what arrives and writes it   *)
(* once a frame, and not at all while it is hidden.  Every queue on the way *)
(* is bounded, and a queue that overflowed must not leave a hole.           *)
(*                                                                          *)
(* The emulator is what was written into it: the number of the last chunk   *)
(* and whether one was skipped or repeated.  Scrollback is replayed whole,  *)
(* so a snapshot stands for every chunk up to its number.                   *)
(***************************************************************************)
EXTENDS WindowDomain

CONSTANTS
  LiveCapacity,   \* chunks the broadcast keeps for a forwarder (terminal.rs)
  PendingCap,     \* chunks the pane queues (terminalStream.ts)
  MaxChunks,      \* chunks the process writes
  MaxStreams,     \* attachments
  MaxGestures     \* the user's and the process's comings and goings

\* A queue without room would lose its only chunk and look drained.
ASSUME TerminalAssumption == None \notin Nat /\ PendingCap \in Nat \ {0}

VARIABLES
  pty,            \* the core: whether the process was started, is active, and its output
  slot,           \* useTerminal: mounted, visible, state, the status it heard, its stream
  xterm,          \* the emulator
  streams,        \* every attachment ever opened, by number
  termSpent       \* bounds used up

terminalVars == <<pty, slot, xterm, streams, termSpent>>

Blank == [upto |-> None, torn |-> FALSE]

Chunk(n) == [resync |-> FALSE, n |-> n]
Snapshot == [resync |-> TRUE, n |-> pty.out]

\* What the emulator becomes as bytes are written into it.
Write(screen, f) ==
  [upto |-> f.n,
   torn |-> screen.torn \/ (~f.resync /\ (screen.upto = None \/ f.n # screen.upto + 1))]
WriteAll(screen, batch) ==
  LET written[i \in 0..Len(batch)] ==
        IF i = 0 THEN screen ELSE Write(written[i - 1], batch[i])
  IN written[Len(batch)]

-------------------------------------------------------------------------------
(* openPtyStream.                                                            *)

NewStream == [stage |-> "asked", settled |-> FALSE, cancelled |-> FALSE, next |-> 0,
              wire |-> <<>>, pending |-> <<>>, frame |-> FALSE, desynced |-> FALSE]

\* cancel: the backlog and the frame go; the forwarder is detached by its token.
CancelOld(all, n) ==
  IF n = None THEN all
  ELSE [all EXCEPT ![n] = [@ EXCEPT !.cancelled = TRUE, !.pending = <<>>, !.frame = FALSE]]

\* attach: a stream of its own, while the last one may still be settling.
Attach(view, all) ==
  /\ Len(all) < MaxStreams
  /\ slot' = [view EXCEPT !.state = "attaching", !.stream = Len(all) + 1, !.timer = FALSE]
  /\ streams' = Append(all, NewStream)

\* reattach: cancel, clear the screen, attach again.
Reattach(view) ==
  /\ xterm' = Blank
  /\ Attach(view, CancelOld(streams, view.stream))

Current == slot.stream

\* Mutant: what the cap drops is not noticed.
QueuedQuietly(s, f) ==
  LET longer == Append(s.pending, f)
  IN [s EXCEPT !.pending = IF Len(longer) > PendingCap THEN Tail(longer) ELSE longer]

\* A chunk joins the backlog, which sheds its oldest past the cap.
Queued(s, f) ==
  LET longer == Append(s.pending, f)
      over == Len(longer) > PendingCap
  IN [s EXCEPT !.pending = IF over THEN Tail(longer) ELSE longer,
               !.desynced = @ \/ over]

\* A snapshot replaces the backlog and heals it.
Healed(s, f) == [s EXCEPT !.pending = <<f>>, !.frame = FALSE, !.desynced = FALSE]

\* A frame of bytes arrives; a hidden pane asks for no animation frame.
Arrives ==
  \E n \in DOMAIN streams :
    LET s == streams[n] IN
    /\ s.wire # <<>>
    /\ LET f == Head(s.wire)
           rest == [s EXCEPT !.wire = Tail(@)]
           queued == IF f.resync THEN Healed(rest, f) ELSE Queued(rest, f)
       IN /\ streams' = [streams EXCEPT ![n] =
                           IF s.cancelled THEN rest
                           ELSE [queued EXCEPT !.frame = @ \/ slot.visible]]
          /\ xterm' = IF ~s.cancelled /\ f.resync THEN Blank ELSE xterm
    /\ UNCHANGED <<pty, slot, termSpent>>

\* flush: the backlog, or a fresh start if it has a hole.
FlushFrame ==
  /\ Current # None
  /\ LET s == streams[Current] IN
     /\ s.frame
     /\ IF s.desynced
        THEN Reattach(slot)
        ELSE /\ xterm' = WriteAll(xterm, s.pending)
             /\ streams' = [streams EXCEPT ![Current] = [s EXCEPT !.pending = <<>>, !.frame = FALSE]]
             /\ UNCHANGED slot
  /\ UNCHANGED <<pty, termSpent>>

\* ready: the attachment resolved or was refused; a superseded one changes
\* nothing but detaches its forwarder.
Settles ==
  \E n \in DOMAIN streams :
    LET s == streams[n] IN
    /\ s.stage # "asked" /\ ~s.settled
    /\ streams' = [streams EXCEPT ![n].settled = TRUE]
    /\ slot' = IF n # Current THEN slot
               ELSE IF s.stage = "refused"
               THEN [slot EXCEPT !.state = "not-started", !.stream = None, !.timer = slot.active]
               ELSE [slot EXCEPT !.state = "live"]
    /\ UNCHANGED <<pty, xterm, termSpent>>

-------------------------------------------------------------------------------
(* useTerminal.                                                              *)

Gesture(action) ==
  /\ termSpent < MaxGestures
  /\ termSpent' = termSpent + 1
  /\ action

OpenPane == [mounted |-> TRUE, visible |-> TRUE, state |-> "attaching", active |-> pty.active,
             timer |-> FALSE, stream |-> None]

\* The pane mounts with an emulator of its own, and attaches.
MountPane ==
  /\ ~slot.mounted
  /\ Attach(OpenPane, streams)
  /\ xterm' = Blank
  /\ UNCHANGED pty

\* Evicted from the pool, or its process removed.
UnmountPane ==
  /\ slot.mounted
  /\ slot' = [slot EXCEPT !.mounted = FALSE, !.visible = FALSE, !.stream = None, !.timer = FALSE]
  /\ streams' = CancelOld(streams, Current)
  /\ xterm' = Blank
  /\ UNCHANGED pty

HidePane ==
  /\ slot.visible
  /\ slot' = [slot EXCEPT !.visible = FALSE]
  /\ UNCHANGED <<pty, xterm, streams>>

\* resume: one more frame for what accrued, unless nothing did.
Resumed(all) ==
  IF Current = None THEN all
  ELSE [all EXCEPT ![Current].frame = @ \/ all[Current].pending # <<>>]

\* Shown: a backlog with a hole is replayed, any other is drained.
ShowPane ==
  /\ slot.mounted /\ ~slot.visible
  /\ LET shown == [slot EXCEPT !.visible = TRUE] IN
     IF Current # None /\ streams[Current].desynced
     THEN Reattach(shown)
     ELSE /\ slot' = shown
          /\ streams' = Resumed(streams)
          /\ UNCHANGED xterm
  /\ UNCHANGED pty

UserTurns == Gesture(MountPane \/ UnmountPane \/ HidePane \/ ShowPane)

\* The effects on the process's status: an active process is attached to at
\* once, or after the backoff if the pane has just been refused.
HearsStatus ==
  /\ slot.mounted /\ slot.active # pty.active
  /\ LET heard == [slot EXCEPT !.active = pty.active, !.timer = FALSE] IN
     IF heard.active /\ Current = None
     THEN Attach(heard, streams)
     ELSE slot' = heard /\ UNCHANGED streams
  /\ UNCHANGED <<pty, xterm, termSpent>>

RetryTimer ==
  /\ slot.timer
  /\ Attach(slot, streams)
  /\ UNCHANGED <<pty, xterm, termSpent>>

-------------------------------------------------------------------------------
(* The core and the forwarder of each attachment.                            *)

\* The channel is opened before the process is announced as active, and is
\* kept across its relaunches.
Launches == ~pty.active /\ pty' = [pty EXCEPT !.started = TRUE, !.active = TRUE]
Ends == pty.active /\ pty' = [pty EXCEPT !.active = FALSE]

ProcessTurns == Gesture(Launches \/ Ends) /\ UNCHANGED <<slot, xterm, streams>>

Records ==
  /\ pty.active /\ pty.out < MaxChunks
  /\ pty' = [pty EXCEPT !.out = @ + 1]
  /\ UNCHANGED <<slot, xterm, streams, termSpent>>

\* pty_attach: the scrollback and a subscription, captured together.
ServeAttach ==
  \E n \in DOMAIN streams :
    /\ streams[n].stage = "asked"
    /\ streams' = [streams EXCEPT ![n] =
         IF pty.started
         THEN [@ EXCEPT !.stage = "attached", !.wire = <<Snapshot>>, !.next = pty.out + 1]
         ELSE [@ EXCEPT !.stage = "refused"]]
    /\ UNCHANGED <<pty, slot, xterm, termSpent>>

Detached(s) == s.cancelled /\ s.settled

\* The next chunk, or the scrollback again once the broadcast has dropped some.
Forwarded(s) ==
  IF pty.out - s.next + 1 > LiveCapacity
  THEN [s EXCEPT !.wire = Append(@, Snapshot), !.next = pty.out + 1]
  ELSE [s EXCEPT !.wire = Append(@, Chunk(s.next)), !.next = @ + 1]

Forwards ==
  \E n \in DOMAIN streams :
    LET s == streams[n] IN
    /\ s.stage = "attached" /\ ~Detached(s) /\ s.next <= pty.out
    /\ streams' = [streams EXCEPT ![n] = Forwarded(s)]
    /\ UNCHANGED <<pty, slot, xterm, termSpent>>

TerminalInit ==
  /\ pty \in [started : BOOLEAN, active : {FALSE}, out : {0}]
  /\ slot = [mounted |-> FALSE, visible |-> FALSE, state |-> "attaching", active |-> FALSE,
             timer |-> FALSE, stream |-> None]
  /\ xterm = Blank /\ streams = <<>> /\ termSpent = 0

TerminalNext ==
  /\ surface = "terminal"
  /\ \/ UserTurns \/ ProcessTurns \/ Arrives \/ FlushFrame \/ Settles \/ HearsStatus \/ RetryTimer
     \/ Records \/ ServeAttach \/ Forwards

-------------------------------------------------------------------------------
(* Properties.                                                               *)

TerminalTypeOK ==
  /\ slot.state \in {"attaching", "live", "not-started"}
  /\ Current # None => Current \in DOMAIN streams /\ ~streams[Current].cancelled
  /\ \A n \in DOMAIN streams :
       Len(streams[n].pending) <= PendingCap /\ streams[n].next <= MaxChunks + 1

\* No chunk is skipped or written twice, whatever overflowed, was superseded or
\* was hidden on the way (terminalStream.ts: "an overflow never leaves a gap").
NoGap == ~xterm.torn

\* A pane in view that has nothing more to come shows all of the output.
ShowsAll ==
  /\ slot.visible /\ Current # None /\ streams[Current].stage = "attached"
  /\ streams[Current].wire = <<>> /\ ~streams[Current].frame
  /\ streams[Current].next = pty.out + 1
  => xterm.upto = pty.out

\* A pane refused while its process is active is not left on its overlay
\* (useTerminal.ts, ATTACH_RETRY_MS).
NotStranded == slot.mounted /\ slot.active /\ Current = None => slot.timer

PaneHolds == NoGap /\ ShowsAll /\ NotStranded

=============================================================================
