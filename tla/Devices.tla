------------------------------- MODULE Devices -------------------------------
(***************************************************************************)
(* The devices together: remote input, serial ports, waveOut and the audio *)
(* tap, with the emulator thread, the server threads, the audio backend    *)
(* and the clock taking turns.  A behaviour stays within the calls of one  *)
(* scene.                                                                  *)
(***************************************************************************)
EXTENDS RemoteAudio

vars == <<endpointVars, serialVars, waveVars, audioVars>>

TypeOK == EndpointType /\ SerialType /\ WaveType /\ AudioType

Init == EndpointInit /\ SerialInit /\ WaveInit /\ AudioInit

Backend == BackendTake \/ BackendPlayed

Endpoint == \E s \in Sessions : SessionStep(s) /\ UNCHANGED <<serialVars, waveVars, audioVars>>

Serial ==
  (GuestSerialCall \/ HostStep \/ Tick) /\ UNCHANGED <<waveVars, audioVars>>

Wave ==
  \/ GuestWaveCall \/ RefreshCompletedHostWaveBuffers \/ RefreshSignaledWaits \/ Backend

Next ==
  \/ Endpoint \/ Serial
  \/ Wave /\ UNCHANGED audioVars
  \/ \E c \in Clients : ClientStep(c)

Spec == Init /\ [][Next]_vars

(* The emulator thread gets on: a slice ends, whatever calls the guest      *)
(* makes, and the steps of the host loop and of a refresh follow.           *)
EmulatorStep ==
  \/ HostStep /\ UNCHANGED <<waveVars, audioVars>>
  \/ (RefreshCompletedHostWaveBuffers \/ RefreshSignaledWaits) /\ UNCHANGED audioVars

Fairness ==
  /\ SF_vars(EmulatorStep)
  /\ WF_vars(HandleReadFile /\ UNCHANGED <<waveVars, audioVars>>)
  /\ WF_vars(Tick /\ UNCHANGED <<waveVars, audioVars>>)

FairSpec == Spec /\ Fairness

-----------------------------------------------------------------------------
(* The serial ports are a line with waiting readers: see SerialLine.  A     *)
(* thread that is parked without a pending read was forgotten.              *)
Waiting(t) ==
  IF tstate[t] = "serial" /\ reads[t] = NoRead THEN [want |-> 0, deadline |-> -1]
  ELSE [want |-> reads[t].want, deadline |-> reads[t].deadline]

Line == INSTANCE SerialLine WITH
  Readers  <- Workers,
  Capacity <- MaxSerialBytes,
  line     <- serial,
  got      <- received,
  wait     <- [t \in Workers |-> Waiting(t)],
  clock    <- now

(* Bytes reach the readers in order, once, and only the oldest are lost; a  *)
(* parked ReadFile ends with bytes or at its deadline, whatever arrives     *)
(* while a refresh works on its copy of the pending reads, and a reader     *)
(* whose port was closed never returns.                                     *)
LineRefined == Line!Spec

(* A parked ReadFile with a time-out ends: the thread runs again, unless    *)
(* the guest closed the port or the emulator is paused meanwhile.           *)
TimedReadEnds ==
  \A t \in Workers :
    (reads[t].deadline # NoDeadline) ~> (tstate[t] # "serial" \/ reads[t] = NoRead \/ paused)
=============================================================================
