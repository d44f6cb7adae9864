---------------------------- MODULE CharDevices ----------------------------
(***************************************************************************)
(* The two character devices side by side.  They share no state but the    *)
(* configuration: g_cfg->ACIA says whether there is a serial line and how  *)
(* its driver works.  Without one, TTY_SEND and TTY_RECEIVE fail at once   *)
(* and the programs use the console; with one they use the line.  The      *)
(* steps of the two devices commute, so no run needs both at a time.       *)
(***************************************************************************)
EXTENDS Console, Serial

CONSTANTS
  Lines,     \* the values of g_cfg->ACIA: "none", "busy", "interrupt"
  Garbage    \* what the driver's buffers may hold at the start

VARIABLE acia    \* g_cfg->ACIA

allVars == <<consoleVars, serialVars, acia>>

Init ==
  /\ acia \in Lines
  /\ ConsoleInit
  /\ \E g \in Garbage : SerialInit(IF acia = "interrupt" THEN {REC, SEND} ELSE BUSY_WAITING, g)
  \* one choice is enough where nobody looks
  /\ acia # "none" => keyboard = CHOOSE typed \in Inputs : TRUE
  /\ acia # "interrupt" => send_buffer[0] = 0

Next ==
  /\ \/ acia = "none" /\ ConsoleNext /\ UNCHANGED serialVars
     \/ acia # "none" /\ SerialNext /\ UNCHANGED consoleVars
  /\ UNCHANGED acia

CharSpec == Init /\ [][Next]_allVars /\ ConsoleFairness

=============================================================================
