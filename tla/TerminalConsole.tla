--------------------------- MODULE TerminalConsole ---------------------------
(***************************************************************************)
(* The terminal console (plugins/terminal-console): the panel of the page, *)
(* which runs one command at a time, the host that streams its output, and *)
(* the process group it runs in.  Text is counted, not kept: in the units  *)
(* of String.length, with which the code compares MAX_OUTPUT_BYTES, here   *)
(* `MaxOutput', and beside it in bytes, `Widest' of them at most a unit.   *)
(***************************************************************************)
EXTENDS Naturals, Sequences, FiniteSetsExt, Absent

CONSTANTS
  Commands,  \* the requests of the panel, one slot each
  MaxOutput, \* the text one command may stream
  Widest,    \* the bytes of UTF-8 that one unit of text may take
  Chunk,     \* bound: the largest chunk a process writes at once
  Volume     \* bound: how much a process writes in all

VARIABLES
  running,  \* the panel's `running': the command whose fetch is open
  status,   \* the panel's status line
  commands  \* the host's side of every command, its process and its wire

terminalVars == <<running, status, commands>>

(* How a command ends: exit code 0, another one, or no code at all, for it *)
(* was killed by a signal, the host's or any other.                        *)
Ending == {"exit", "failed", "killed"}

ASSUME TerminalAssumption ==
  /\ MaxOutput \in Nat /\ Chunk \in Nat /\ Volume \in Nat
  /\ Widest \in Nat \ {0}
  /\ None \notin Commands \cup Ending

-----------------------------------------------------------------------------

(* One frame of the stream; the closing one says whether output was cut.   *)
Frame == [type : {"out", "error"} \cup Ending, truncated : BOOLEAN]
Plain(type) == [type |-> type, truncated |-> FALSE]

Command ==
  [request  : {"none", "sent", "streaming", "left", "done"},
   group    : {"none", "running", "background", "gone"}, \* the detached group
   signalled : BOOLEAN,     \* history: it was sent SIGTERM
   abandoned : BOOLEAN,     \* history: the host heard that nobody waits for it
   timer    : BOOLEAN,
   timedOut : BOOLEAN,
   bytes    : 0..Volume + Chunk,
   truncated : BOOLEAN,
   closed   : BOOLEAN,
   ended    : Optional(Ending),  \* history: what its closing frame says
   told     : {"nothing", "whole", "cut"}, \* what the status line says of it
   produced : 0..Volume,    \* history: text the process wrote while watched
   sent     : 0..Volume,    \* history: text enqueued
   sentBytes : Nat,         \* history: the same, in bytes
   wire     : Seq(Frame)]

NoCommand ==
  [request |-> "none", group |-> "none", signalled |-> FALSE, abandoned |-> FALSE,
   timer |-> FALSE, timedOut |-> FALSE, bytes |-> 0, truncated |-> FALSE,
   closed |-> FALSE, ended |-> None, told |-> "nothing", produced |-> 0,
   sent |-> 0, sentBytes |-> 0, wire |-> <<>>]

Host(c, record) == commands' = [commands EXCEPT ![c] = record]
PanelUnchanged == UNCHANGED <<running, status>>

(* stop(): the whole group gets SIGTERM, if any of it is still there.      *)
Stop(command) ==
  [command EXCEPT !.signalled = @ \/ command.group \in {"running", "background"},
                  !.abandoned = TRUE]

(* What is enqueued of a chunk: what the limit leaves room for.            *)
Kept(command, length) ==
  IF command.closed \/ command.bytes >= MaxOutput THEN 0
  ELSE Min({length, MaxOutput - command.bytes})

(* emit() that sends a chunk that does not fit whole.                      *)
EmitWholeChunk(command, length, size) ==
  IF Kept(command, length) = 0 THEN command
  ELSE [command EXCEPT !.wire = Append(@, Plain("out")), !.bytes = @ + length,
                       !.sent = @ + length, !.sentBytes = @ + size,
                       !.truncated = @ \/ Kept(command, length) < length]

(* emit(): output beyond the limit is cut off, and noted to be.  `size' is *)
(* what is enqueued, in bytes.                                             *)
Emit(command, length, size) ==
  LET kept == Kept(command, length)
  IN IF command.closed \/ length = 0 THEN command
     ELSE IF kept = 0 THEN [command EXCEPT !.truncated = TRUE]
     ELSE [command EXCEPT !.wire = Append(@, Plain("out")), !.bytes = @ + length,
                          !.sent = @ + kept, !.sentBytes = @ + size,
                          !.truncated = @ \/ kept < length]

(* exitFrames(): the timeout's message comes before the outcome, which     *)
(* says whether the output was cut.                                        *)
ExitFrames(command, code) ==
  Append(IF command.timedOut THEN Append(command.wire, Plain("error"))
         ELSE command.wire,
         [type |-> code, truncated |-> command.truncated])

-----------------------------------------------------------------------------
(* The panel                                                               *)

(* One command at a time: a second one waits for finish().                 *)
Run(c) ==
  /\ running = None
  /\ commands[c].request = "none"
  /\ running' = c
  /\ status' = "running"
  /\ Host(c, [commands[c] EXCEPT !.request = "sent"])

(* The stop button and Ctrl+C, by which the fetch is aborted, or a         *)
(* connection that breaks: finish() follows.                               *)
Abort ==
  /\ running # None
  /\ Host(running, [commands[running] EXCEPT !.request = "left"])
  /\ running' = None
  /\ status' \in {"stopped", "failed"}

(* The page is reloaded: a new panel knows nothing of the command.         *)
Reload ==
  /\ commands' = IF running = None THEN commands
                 ELSE [commands EXCEPT ![running].request = "left"]
  /\ running' = None
  /\ status' = "ready"

Clear == status' = "cleared" /\ UNCHANGED <<running, commands>>

(* handleFrame(), one line of the stream: the status line says of a cut    *)
(* what the closing frame says, except of a command that was killed.       *)
HandleFrame ==
  /\ running # None
  /\ commands[running].request = "streaming"
  /\ commands[running].wire # <<>>
  /\ LET frame == Head(commands[running].wire)
     IN /\ status' = IF frame.type = "out" THEN status ELSE frame.type
        /\ Host(running,
                [commands[running] EXCEPT
                   !.wire = Tail(@),
                   !.told = IF frame.type \notin {"exit", "failed"} THEN @
                            ELSE IF frame.truncated THEN "cut" ELSE "whole"])
  /\ UNCHANGED running

(* The stream ended, or the answer was a refusal: finish().                *)
Done ==
  /\ running # None
  /\ \/ /\ commands[running].request = "streaming"
        /\ commands[running].closed
        /\ commands[running].wire = <<>>
        /\ Host(running, [commands[running] EXCEPT !.request = "done"])
        /\ UNCHANGED status
     \/ /\ commands[running].request = "done"
        /\ status' = "failed"
        /\ UNCHANGED commands
  /\ running' = None

-----------------------------------------------------------------------------
(* The host                                                                *)

(* handle(): an unusable command is refused; any other is spawned in the   *)
(* project's directory, in a group of its own, with the timer armed.       *)
Handle(c) ==
  /\ commands[c].request \in {"sent", "left"}
  /\ commands[c].group = "none"
  /\ ~commands[c].closed
  /\ \/ Host(c, [commands[c] EXCEPT !.group = "running", !.timer = TRUE,
                   !.request = IF @ = "left" THEN @ ELSE "streaming"])
     \/ /\ commands[c].request = "sent"
        /\ Host(c, [commands[c] EXCEPT !.request = "done", !.closed = TRUE])
  /\ PanelUnchanged

(* stdout or stderr has text, some of which is escapes: what is left of it *)
(* may be nothing.                                                         *)
Data(c, length) ==
  LET command == commands[c]
      kept == Kept(command, length)
  IN /\ command.group = "running"
     /\ command.produced + length <= Volume
     /\ \E size \in kept..Widest * kept :
          Host(c, [Emit(command, length, size) EXCEPT
                     !.produced = IF command.closed THEN @ ELSE @ + length])
     /\ PanelUnchanged

(* The shell ended and its pipes are closed: the frames of the end follow, *)
(* if anyone still listens.  What it left in the background, with its      *)
(* output elsewhere, goes on; the timer is no longer armed for it.         *)
ProcessClosed(c, code, left) ==
  LET command == commands[c]
  IN /\ command.group = "running"
     /\ Host(c, [command EXCEPT
                   !.group = left, !.timer = FALSE, !.closed = TRUE,
                   !.ended = IF command.closed THEN @ ELSE code,
                   !.wire = IF command.closed THEN @ ELSE ExitFrames(command, code)])
     /\ PanelUnchanged

(* The last process of the group ends.                                     *)
GroupEnds(c) ==
  /\ commands[c].group = "background"
  /\ Host(c, [commands[c] EXCEPT !.group = "gone"])
  /\ PanelUnchanged

(* The command ran for COMMAND_TIMEOUT_MS.                                 *)
TimeOut(c) ==
  /\ commands[c].timer
  /\ Host(c, [Stop(commands[c]) EXCEPT !.timer = FALSE, !.timedOut = TRUE])
  /\ PanelUnchanged

(* cancel() that closes the stream and leaves the process to itself.       *)
CancelOnly(c) ==
  /\ commands[c].request = "left"
  /\ commands[c].group \in {"running", "background"}
  /\ Host(c, [commands[c] EXCEPT !.timer = FALSE, !.closed = TRUE, !.abandoned = TRUE])
  /\ PanelUnchanged

(* The connection learns that the caller left: the request's signal is     *)
(* aborted, or the stream is cancelled, or one after the other; a signal   *)
(* aborted after the shell's end still reaches what it left behind.        *)
Cancel(c) ==
  /\ commands[c].request = "left"
  /\ commands[c].group \in {"running", "background"}
  /\ \E cancelled \in BOOLEAN :
       Host(c, [Stop(commands[c]) EXCEPT !.timer = FALSE, !.closed = @ \/ cancelled])
  /\ PanelUnchanged

(* The slot of a command that is over is used again.                       *)
Recycle(c) ==
  /\ running # c
  /\ commands[c].request \in {"left", "done"}
  /\ commands[c].closed
  /\ commands[c].group \in {"none", "gone"}
  /\ Host(c, NoCommand)
  /\ PanelUnchanged

-----------------------------------------------------------------------------

TerminalInit ==
  /\ running = None
  /\ status = "ready"
  /\ commands = [c \in Commands |-> NoCommand]

TerminalNext ==
  \/ Abort \/ Reload \/ Clear \/ HandleFrame \/ Done
  \/ \E c \in Commands :
       \/ Run(c)
       \/ Handle(c)
       \/ \E length \in 0..Chunk : Data(c, length)
       \/ \E code \in Ending, left \in {"gone", "background"} :
            ProcessClosed(c, code, left)
       \/ GroupEnds(c)
       \/ TimeOut(c)
       \/ Cancel(c)
       \/ Recycle(c)

TerminalSpec == TerminalInit /\ [][TerminalNext]_terminalVars

-----------------------------------------------------------------------------
(* Properties                                                              *)

StatusKinds == {"ready", "running", "stopped", "cleared", "error"} \cup Ending

TerminalTypeOK ==
  /\ running \in Optional(Commands)
  /\ status \in StatusKinds
  /\ commands \in [Commands -> Command]

(* A watched command's text reaches the stream up to the limit and no      *)
(* further: at the limit, past it, and when the limit falls inside a chunk *)
(* (index.js, emit).  The limit counts units of text, of `Widest' bytes at *)
(* most.  Once a command that ended with an exit code has been read to its *)
(* end, the panel's status says that output was cut exactly when it was;   *)
(* of one that was killed it says nothing.                                 *)
OutputAccounted ==
  \A c \in Commands :
    LET command == commands[c]
        cut == command.produced > MaxOutput
    IN /\ command.sent = Min({command.produced, MaxOutput})
       /\ command.sentBytes <= Widest * MaxOutput
       /\ command.told # "nothing" =>
            /\ command.ended \in {"exit", "failed"}
            /\ command.told = "cut" <=> cut
       /\ command.request = "done" /\ command.ended \in {"exit", "failed"} =>
            command.told = (IF cut THEN "cut" ELSE "whole")

(* Nothing that the host learns nobody waits for keeps running unseen: as  *)
(* soon as the stream or the timer of a command whose shell runs is gone,  *)
(* its group was told to stop, and so was whatever of the group outlives   *)
(* the shell (index.js, stop).  What a shell that ended by itself left in  *)
(* the background is not concerned: no timer and no stream is left for it. *)
UnwatchedIsStopped ==
  \A c \in Commands :
    /\ commands[c].group = "running" /\ (commands[c].closed \/ ~commands[c].timer)
         => commands[c].signalled
    /\ commands[c].group = "background" /\ commands[c].abandoned
         => commands[c].signalled
=============================================================================
