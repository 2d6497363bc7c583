------------------------------ MODULE HotSwap -------------------------------
(***************************************************************************)
(* The hot swap of the guest: espnow_rx_task feeds OTA frames to the       *)
(* OtaReceiver it owns and fires OTA_SWAP_SIGNAL, all other frames go to   *)
(* CMD_CHANNEL; wasm_run_task polls the signal once per turn of its loop   *)
(* and then blocks for a command.                                          *)
(*                                                                         *)
(* Both tasks share one cooperative executor: a frame is handled only      *)
(* while wasm_run_task is not running, that is before its first poll,      *)
(* inside receive().await, or after it has ended.                          *)
(***************************************************************************)
EXTENDS OtaReceiver, FiniteSets

CONSTANTS
  Images,      \* binaries the PC sends, each in one chunk
  GuestBuilds, \* build_vm accepts GUEST_WASM, the binary in the firmware
  CmdDepth,    \* CMD_QUEUE_DEPTH
  MaxBytes     \* bound: bytes_received above which no chunk arrives

ASSUME HotSwapAssumption ==
  /\ Images \subseteq Seq(Byte)
  /\ GuestBuilds \in BOOLEAN
  /\ CmdDepth \in Nat \ {0} /\ MaxBytes \in Nat

VARIABLES
  signal,       \* OTA_SWAP_SIGNAL: the length it carries, or NoSignal
  cmdQueue,     \* CMD_CHANNEL; commands are numbered as they are accepted
  wasm,         \* where wasm_run_task is in its loop
  accepted, dispatched,   \* history: number of the last command accepted by
                          \* the queue, and handed to the guest
  verified,     \* history: the length of the last binary that passed FINALIZE
  late          \* history: commands handed to the old guest since the signal

loopVars == <<signal, cmdQueue, wasm>>
histVars == <<accepted, dispatched, verified, late>>
vars == <<otaVars, loopVars, histVars>>

OffCpu == wasm \in {"booting", "waiting", "halted"}
NoSignal == 0            \* a staged binary is never empty
Numbers == CmdDepth + 2  \* command numbers wrap here
Succ(n) == (n + 1) % Numbers
MaxLate == 2             \* bound: late stops counting here

Messages ==
  {Begin(Len(img)) : img \in Images} \cup {Chunk(0, img) : img \in Images}
    \cup {Finalize(Crc(img)) : img \in Images}
    \cup {Begin(0), Truncated("OTA_FINALIZE")}

Init ==
  /\ OtaInit
  /\ signal = NoSignal /\ cmdQueue = <<>>
  /\ wasm = "booting"
  /\ accepted = 0 /\ dispatched = 0 /\ verified = 0 /\ late = 0

-----------------------------------------------------------------------------
(* espnow_rx_task: handle_frame *)

\* A plausible bug: every FINALIZE fires the signal.
Signal_Unconditional(m) ==
  signal' = IF m.cmd = "OTA_FINALIZE" THEN Len(buffer') ELSE signal

\* After a FINALIZE, whatever it returned: ready_binary() decides.
Signal(m) ==
  signal' = IF m.cmd = "OTA_FINALIZE" /\ state' = "Ready"
            THEN Len(buffer') ELSE signal

OtaFrame(m) ==
  /\ OffCpu
  /\ m.cmd = "OTA_CHUNK" => bytes_received < MaxBytes
  /\ HandleCommand(m)
  /\ Signal(m)
  /\ IF state = "Receiving" /\ state' = "Ready"
     THEN verified' = total_size
     ELSE UNCHANGED verified
  /\ UNCHANGED <<cmdQueue, wasm, accepted, dispatched, late>>

\* try_send(..).ok()
CommandFrame ==
  /\ OffCpu
  /\ IF Len(cmdQueue) < CmdDepth
     THEN /\ cmdQueue' = Append(cmdQueue, Succ(accepted))
          /\ accepted' = Succ(accepted)
     ELSE UNCHANGED <<cmdQueue, accepted>>
  /\ UNCHANGED <<otaVars, signal, wasm, dispatched, verified, late>>

-----------------------------------------------------------------------------
(* wasm_run_task *)

\* build_vm(GUEST_WASM) at boot
Boot ==
  /\ wasm = "booting"
  /\ wasm' = IF GuestBuilds THEN "polling" ELSE "halted"
  /\ UNCHANGED <<otaVars, signal, cmdQueue, histVars>>

\* A plausible bug: the swap starts with an empty command queue.
Swap_FlushesQueue ==
  /\ wasm = "polling" /\ signal # NoSignal
  /\ signal' = NoSignal
  /\ wasm' = IF GuestBuilds THEN "receiving" ELSE "halted"
  /\ cmdQueue' = <<>>
  /\ late' = 0
  /\ UNCHANGED <<otaVars, accepted, dispatched, verified>>

\* try_take() returned a length: pause, flush, instantiate, resume.  The swap
\* rebuilds GUEST_WASM, a placeholder for the staged binary, so the fallback to
\* GUEST_WASM succeeds exactly when the first attempt does.
Swap ==
  /\ wasm = "polling" /\ signal # NoSignal
  /\ signal' = NoSignal
  /\ wasm' = IF GuestBuilds THEN "receiving" ELSE "halted"
  /\ late' = 0
  /\ UNCHANGED <<otaVars, cmdQueue, accepted, dispatched, verified>>

NoSwap ==
  /\ wasm = "polling" /\ signal = NoSignal
  /\ wasm' = "receiving"
  /\ UNCHANGED <<otaVars, signal, cmdQueue, histVars>>

\* receiver.receive().await: a queued command is taken at once ...
Dispatch ==
  /\ wasm \in {"receiving", "waiting"} /\ cmdQueue # <<>>
  /\ wasm' = "calling"
  /\ dispatched' = Head(cmdQueue)
  /\ cmdQueue' = Tail(cmdQueue)
  /\ late' = IF signal # NoSignal /\ late < MaxLate THEN late + 1 ELSE late
  /\ UNCHANGED <<otaVars, signal, accepted, verified>>

\* ... otherwise the task yields until the channel (only) wakes it.
Wait ==
  /\ wasm = "receiving" /\ cmdQueue = <<>>
  /\ wasm' = "waiting"
  /\ UNCHANGED <<otaVars, signal, cmdQueue, histVars>>

\* A plausible bug: the signal is polled once, outside of the loop.
Return_NoPoll ==
  /\ wasm = "calling"
  /\ wasm' = "receiving"
  /\ UNCHANGED <<otaVars, signal, cmdQueue, histVars>>

\* run_command returned or trapped: the next turn of the loop
Return ==
  /\ wasm = "calling"
  /\ wasm' = "polling"
  /\ UNCHANGED <<otaVars, signal, cmdQueue, histVars>>

Wasm == Boot \/ Swap \/ NoSwap \/ Dispatch \/ Wait \/ Return
Radio == CommandFrame \/ \E m \in Messages : OtaFrame(m)

Next == Wasm \/ Radio

\* The executor runs a woken task and the guest returns; no frame need arrive.
FairSpec == Init /\ [][Next]_vars /\ WF_vars(Wasm)

-----------------------------------------------------------------------------
(* Properties *)

\* The guest gets every accepted command once and in order, across swaps: the
\* queue holds exactly the numbers after the last one dispatched.
CommandsInOrder ==
  /\ Len(cmdQueue) = (accepted - dispatched) % Numbers
  /\ \A i \in DOMAIN cmdQueue : cmdQueue[i] = (dispatched + i) % Numbers

\* At most one command, the one the task was already waiting for, still goes to
\* the old guest once the signal is up.
AtMostOneLate == late <= 1

\* The signal names the binary that passed its checksum last: neither one that a
\* later FINALIZE refused, nor one a later verification has replaced while the
\* signal waited for its poll, however often FINALIZE is repeated.
SignalNamesVerified == signal # NoSignal => signal = verified

\* A swap is not starved: while commands keep arriving, a signal is taken.
SwapHappens ==
  []<>(cmdQueue # <<>>) => [](signal # NoSignal => <>(signal = NoSignal))
=============================================================================
