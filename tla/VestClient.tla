------------------------------ MODULE VestClient ------------------------------
(***************************************************************************)
(* The emitter as the central of its vest, emitter/src/ble_vest.c, and the *)
(* scanner it shares with the mesh: finding a vest, connecting to it and   *)
(* discovering its services keep the scanner off, the pump of the mesh     *)
(* turns it off and on for its own reasons.                                *)
(*                                                                         *)
(* Scan reports, connection and discovery callbacks run on the Bluetooth   *)
(* thread, which waits for the controller between stopping the scanner and *)
(* creating the connection; the ready callback runs on the work queue.     *)
(***************************************************************************)
EXTENDS MeshTx

VARIABLES
  vestConn,    \* vest_conn, the wait before it and the progress of discovery: "none",
               \* "creating", "initiating", "discovering", "undiscovered", "ready"
  readyQueued  \* ready_cb_work is submitted

vcVars == <<vestConn, readyQueued>>
radioVars == <<txVars, vcVars>>

VcInit == vestConn = "none" /\ readyQueued = FALSE

RadioInit == TxInit /\ VcInit

OnlyScanner ==
  UNCHANGED <<frames, queue, pumpQueued, wq, onAir, stopDue, repeatVars, relayVars>>

\* ble_vest_on_scan_result with the name of a vest in it; a report received
\* before the scanner was stopped may come after that.
VestFound ==
  /\ vestConn = "none"
  /\ vestConn' = "creating"
  /\ scanning' = FALSE
  /\ OnlyScanner
  /\ UNCHANGED readyQueued

\* The rest of vest_scan_connect.  The host may refuse a connection while
\* the pump has the scanner running again, or for want of an object.
CreatesConnection ==
  /\ vestConn = "creating"
  /\ vestConn' = "initiating"
  /\ UNCHANGED <<txVars, readyQueued>>

CreateFails ==
  /\ vestConn = "creating"
  /\ vestConn' = "none"
  /\ StartScanner
  /\ OnlyScanner
  /\ UNCHANGED readyQueued

\* vest_conn_connected; the host reports a time-out when nobody answers.
VestLinked ==
  /\ vestConn = "initiating"
  /\ vestConn' = "discovering"
  /\ UNCHANGED <<txVars, readyQueued>>

\* Mutant: the scanner is left off when the vest does not answer.
VestLinkFailsDeaf ==
  /\ vestConn = "initiating"
  /\ vestConn' = "none"
  /\ UNCHANGED <<txVars, readyQueued>>

VestLinkFails ==
  /\ vestConn = "initiating"
  /\ vestConn' = "none"
  /\ StartScanner
  /\ OnlyScanner
  /\ UNCHANGED readyQueued

\* gatt_discover_cb: both characteristics found and subscribed to.
DiscoveryDone ==
  /\ vestConn = "discovering"
  /\ vestConn' = "ready"
  /\ readyQueued' = TRUE
  /\ UNCHANGED txVars

\* No service, a characteristic missing, or a procedure that failed to
\* start: logged, and nothing else.
DiscoveryFails ==
  /\ vestConn = "discovering"
  /\ vestConn' = "undiscovered"
  /\ UNCHANGED <<txVars, readyQueued>>

\* Mutant: the phone is told, the scanner is left off.
ReadyWorkDeaf ==
  /\ readyQueued /\ wq = "free"
  /\ readyQueued' = FALSE
  /\ UNCHANGED <<txVars, vestConn>>

\* ready_cb_handler and on_vest_gatt_ready
ReadyWork ==
  /\ readyQueued /\ wq = "free"
  /\ readyQueued' = FALSE
  /\ StartScanner
  /\ OnlyScanner
  /\ UNCHANGED vestConn

VestDisconnects ==
  /\ vestConn \in {"discovering", "undiscovered", "ready"}
  /\ vestConn' = "none"
  /\ StartScanner
  /\ OnlyScanner
  /\ UNCHANGED readyQueued

Connecting == CreatesConnection \/ CreateFails \/ VestLinked \/ VestLinkFails
Discovery == DiscoveryDone \/ DiscoveryFails

VcNext ==
  \/ TxNext /\ UNCHANGED vcVars
  \/ VestFound \/ Connecting \/ Discovery \/ ReadyWork \/ VestDisconnects

\* The host ends every connection attempt and every discovery procedure, by
\* a time-out if nobody answers.
VcFairness ==
  /\ WF_radioVars(Pump /\ UNCHANGED vcVars)
  /\ WF_radioVars(StopAdv /\ UNCHANGED vcVars)
  /\ WF_radioVars(Connecting)
  /\ WF_radioVars(Discovery)
  /\ WF_radioVars(ReadyWork)

VcSpec == RadioInit /\ [][VcNext]_radioVars /\ VcFairness
-----------------------------------------------------------------------------
(* Properties.                                                             *)

\* The scanner is off only for a reason that ends by turning it on again,
\* although two threads stop and start it without telling each other; a vest
\* that was connected and not discovered is the one lasting reason.
ScannerAccounted ==
  ~scanning => \/ PumpComing
               \/ readyQueued
               \/ vestConn \in {"creating", "initiating", "discovering", "undiscovered"}

\* So the emitter hears the mesh again and again, unless it is stuck with a
\* vest it could not discover.
HearsAgain == []<>(scanning \/ vestConn = "undiscovered")
=============================================================================
