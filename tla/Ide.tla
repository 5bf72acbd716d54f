-------------------------------- MODULE Ide --------------------------------
(***************************************************************************)
(* ide_read and ide_write on one channel with its disks, the interrupt     *)
(* handler, and the disks themselves (external: what the ATA registers     *)
(* promise the driver).  A request waits for its completion on a semaphore *)
(* that the handler ups.  expecting_interrupt is set by the commands that  *)
(* detect the disks at boot and never reset: from then on an interrupt     *)
(* that no command caused ups the semaphore too.                           *)
(*                                                                         *)
(* Left out: the time-outs (10 ms to become idle, 30 s to end a command;   *)
(* the disks answer in time) and the detection of the disks.               *)
(***************************************************************************)
EXTENDS Integers

CONSTANTS
  Requesters,   \* threads that read and write
  Places,       \* sectors of the disks of the channel
  Data,         \* contents of a sector
  MaxSpurious,  \* bound: interrupts that no command caused
  Unowned       \* null thread

IdeAssumption == Unowned \notin Requesters /\ Places # {} /\ Data # {} /\ MaxSpurious \in Nat

VARIABLES
  channelLock,     \* holder of the lock of the channel
  request,         \* what each thread asks for; a read's data is its answer
  phase,           \* where each thread is in ide_read or ide_write
  selected,        \* disk and sector in the registers
  status,          \* the busy and data bits, and what the disk is doing
  transfer,        \* data of a write on its way to the disk
  disk,            \* contents of the disks
  irq,             \* the interrupt line
  completionWait,  \* value of the semaphore
  spurious,        \* interrupts so far that no command caused
  written          \* history: contents by the writes that returned

threadVars == <<channelLock, request, phase, selected, completionWait, written>>
deviceVars == <<status, transfer, disk, irq, spurious>>
ideVars == <<threadVars, deviceVars>>

Requests == [at : Places, op : {"read", "write"}, data : Data]
Phases == {"away", "enter", "select", "command", "down", "poll", "leave"}

\* "fetch": busy with a read; "accept": busy with a write, no data yet;
\* "ready": data bit set; "commit": busy with the data of a write.
Statuses == {"idle", "fetch", "accept", "ready", "commit"}
Busy == status \in {"fetch", "accept", "commit"}

Blank == CHOOSE d \in Data : TRUE
Init ==
  /\ channelLock = Unowned
  /\ request = [t \in Requesters |-> [at |-> CHOOSE p \in Places : TRUE, op |-> "read", data |-> Blank]]
  /\ phase = [t \in Requesters |-> "away"]
  /\ selected = CHOOSE p \in Places : TRUE
  /\ status = "idle" /\ transfer = Blank
  /\ disk = [p \in Places |-> Blank] /\ written = disk
  /\ irq = FALSE /\ completionWait = 0 /\ spurious = 0

Goto(t, p) == phase' = [phase EXCEPT ![t] = p]
----------------------------------------------------------------------------
Call(t) ==
  /\ phase[t] = "away"
  /\ \E r \in Requests : request' = [request EXCEPT ![t] = r]
  /\ Goto(t, "enter")
  /\ UNCHANGED <<channelLock, selected, completionWait, written, deviceVars>>

Enter(t) ==
  /\ phase[t] = "enter" /\ channelLock = Unowned
  /\ channelLock' = t
  /\ Goto(t, "select")
  /\ UNCHANGED <<request, selected, completionWait, written, deviceVars>>

\* Mutant of Select: the channel need not be idle.
SelectNow(t) ==
  /\ phase[t] = "select"
  /\ selected' = request[t].at
  /\ irq' = FALSE
  /\ Goto(t, "command")
  /\ UNCHANGED <<channelLock, request, completionWait, written, status, transfer, disk, spurious>>

\* wait_until_idle and the sector registers.  Reading the status register
\* takes a pending interrupt back.
Select(t) ==
  /\ phase[t] = "select" /\ status = "idle"
  /\ selected' = request[t].at
  /\ irq' = FALSE
  /\ Goto(t, "command")
  /\ UNCHANGED <<channelLock, request, completionWait, written, status, transfer, disk, spurious>>

Issue(t) ==
  /\ phase[t] = "command"
  /\ \/ request[t].op = "read" /\ status' = "fetch" /\ Goto(t, "down")
     \/ request[t].op = "write" /\ status' = "accept" /\ Goto(t, "poll")
  /\ UNCHANGED <<channelLock, request, selected, completionWait, written, transfer, disk, irq,
                 spurious>>

\* sema_down on completion_wait, after the command of a read and after the
\* data of a write.
Down(t) ==
  /\ phase[t] = "down" /\ completionWait > 0
  /\ completionWait' = completionWait - 1
  /\ Goto(t, IF request[t].op = "read" THEN "poll" ELSE "leave")
  /\ UNCHANGED <<channelLock, request, selected, written, deviceVars>>

\* wait_while_busy comes to its end.
Polled(t) == phase[t] = "poll" /\ ~Busy

\* input_sector.
Input(t) ==
  /\ Polled(t) /\ status = "ready" /\ request[t].op = "read"
  /\ status' = "idle"
  /\ request' = [request EXCEPT ![t].data = disk[selected]]
  /\ Goto(t, "leave")
  /\ UNCHANGED <<channelLock, selected, completionWait, written, transfer, disk, irq, spurious>>

\* output_sector.
Output(t) ==
  /\ Polled(t) /\ status = "ready" /\ request[t].op = "write"
  /\ status' = "commit" /\ transfer' = request[t].data
  /\ Goto(t, "down")
  /\ UNCHANGED <<channelLock, request, selected, completionWait, written, disk, irq, spurious>>

Leave(t) ==
  /\ phase[t] = "leave"
  /\ channelLock' = Unowned
  /\ written' = IF request[t].op = "read" THEN written
                ELSE [written EXCEPT ![request[t].at] = request[t].data]
  /\ Goto(t, "away")
  /\ UNCHANGED <<request, selected, completionWait, deviceVars>>

\* interrupt_handler; reading the status register acknowledges.
Handle ==
  /\ irq /\ irq' = FALSE
  /\ completionWait' = completionWait + 1
  /\ UNCHANGED <<channelLock, request, phase, selected, written, status, transfer, disk, spurious>>
----------------------------------------------------------------------------
\* The disk: it has the data of a read, is ready for the data of a write,
\* and has written it.  The first and the last raise an interrupt.
Device ==
  /\ \/ status = "fetch" /\ status' = "ready" /\ irq' = TRUE /\ UNCHANGED disk
     \/ status = "accept" /\ status' = "ready" /\ UNCHANGED <<irq, disk>>
     \/ status = "commit" /\ status' = "idle" /\ irq' = TRUE
        /\ disk' = [disk EXCEPT ![selected] = transfer]
  /\ UNCHANGED <<threadVars, transfer, spurious>>

\* An interrupt that no command caused.
Glitch ==
  /\ spurious < MaxSpurious /\ ~irq
  /\ spurious' = spurious + 1 /\ irq' = TRUE
  /\ UNCHANGED <<threadVars, status, transfer, disk>>

Step(t) ==
  Enter(t) \/ Select(t) \/ Issue(t) \/ Down(t) \/ Input(t) \/ Output(t) \/ Leave(t)

Next == (\E t \in Requesters : Call(t) \/ Step(t)) \/ Handle \/ Device \/ Glitch

\* The disk carries out its commands, interrupts are taken, threads run on.
Fairness ==
  /\ WF_ideVars(Device) /\ WF_ideVars(Handle)
  /\ \A t \in Requesters : WF_ideVars(Step(t))

Spec == Init /\ [][Next]_ideVars /\ Fairness
----------------------------------------------------------------------------
\* Every part is of its type.
TypeOK ==
  /\ channelLock \in Requesters \cup {Unowned}
  /\ request \in [Requesters -> Requests] /\ phase \in [Requesters -> Phases]
  /\ selected \in Places /\ status \in Statuses /\ transfer \in Data
  /\ disk \in [Places -> Data] /\ written \in [Places -> Data]
  /\ irq \in BOOLEAN /\ completionWait \in 0..(1 + MaxSpurious) /\ spurious \in 0..MaxSpurious

\* A read returns what the last write of its sector that returned has
\* written, also when interrupts let a write return, or the next request
\* begin, before the disk is done.
ReadsRight ==
  \A t \in Requesters :
    phase[t] = "leave" /\ request[t].op = "read" => request[t].data = written[request[t].at]

\* Without such interrupts, a request that gives the channel back has
\* consumed its completion and left the disk idle.
CompletionMatched ==
  spurious = 0 /\ channelLock = Unowned => completionWait = 0 /\ ~irq /\ status = "idle"

\* wait_while_busy never ends without the data bit: no PANIC.
NoPanic == \A t \in Requesters : Polled(t) => status = "ready"

\* A request that has the channel returns.
Returned(t) == phase[t] = "select" ~> phase[t] = "away"
=============================================================================
