---------------------------- MODULE SynchConsole ----------------------------
(***************************************************************************)
(* The console (machine/console.cc) and its driver                         *)
(* (userprog/synchconsole.cc).  The display takes one character at a time. *)
(* The keyboard polls until it has read one character, and does not poll   *)
(* again before GetChar has fetched it; but a character that equals EOF,   *)
(* and the end of the input, look to GetChar like an empty buffer, and     *)
(* then it does not start the poll again.                                  *)
(***************************************************************************)
EXTENDS DeviceCalls

CONSTANTS
  InLock, InAvail,   \* SynchConsoleInput: the semaphore in `lock`, and waitFor
  OutLock, OutDone,  \* SynchConsoleOutput: the same two
  Char, EOF,         \* characters; EOF is one of them, '\377'
  MaxInput           \* bound: characters typed

ASSUME ConsoleAssumption == EOF \in Char /\ MaxInput \in Nat

VARIABLES
  putBusy,    \* consoleOutput->putBusy
  incoming,   \* consoleInput->incoming
  polling,    \* a ConsoleReadInt is pending
  typed,      \* how many characters were read from the keyboard
  ended       \* the last read found EOF: as a character, or since the input is at its end

consoleVars == <<putBusy, incoming, polling, typed, ended>>

ConsoleInit ==
  /\ putBusy = FALSE
  /\ incoming = EOF
  /\ polling = TRUE
  /\ typed = 0
  /\ ended = FALSE

-----------------------------------------------------------------------------
(* SynchConsoleOutput::PutChar *)

AcquireOut(t) == PFromTo(t, OutLock, "put", "putLocked") /\ UNCHANGED consoleVars

PutChar(t) ==
  /\ pc[t] = "putLocked"
  /\ putBusy' = TRUE
  /\ StartP(t, OutDone, "putWait", "putDone")
  /\ UNCHANGED <<incoming, polling, typed, ended>>

AwaitOut(t) == PFromTo(t, OutDone, "putWait", "putDone") /\ UNCHANGED consoleVars

ReleaseOut(t) == ReleaseAndReturn(t, OutLock, "putDone") /\ UNCHANGED consoleVars

(* ConsoleOutput::CallBack *)
ConsoleWriteInt ==
  /\ putBusy
  /\ putBusy' = FALSE
  /\ V(OutDone)
  /\ UNCHANGED <<pc, incoming, polling, typed, ended>>

-----------------------------------------------------------------------------
(* SynchConsoleInput::GetChar *)

AcquireIn(t) == PFromTo(t, InLock, "get", "getLocked") /\ UNCHANGED consoleVars

AwaitIn(t) == PFromTo(t, InAvail, "getLocked", "getDone") /\ UNCHANGED consoleVars

(* GetChar starts the poll again if it found a character. *)
PollAgain == incoming # EOF

GetChar(t) ==
  /\ polling' = PollAgain
  /\ incoming' = EOF
  /\ ReleaseAndReturn(t, InLock, "getDone")
  /\ UNCHANGED <<putBusy, typed, ended>>

(* ConsoleInput::CallBack reads a character.  Without one to read it polls again later. *)
ConsoleReadInt ==
  /\ polling /\ typed < MaxInput
  /\ polling' = FALSE
  /\ \E c \in Char : incoming' = c /\ ended' = (c = EOF)
  /\ typed' = typed + 1
  /\ V(InAvail)
  /\ UNCHANGED <<pc, putBusy>>

(* The same, at the end of an input that is a regular file. *)
ConsoleReadEnd ==
  /\ polling
  /\ polling' = FALSE
  /\ ended' = TRUE
  /\ V(InAvail)
  /\ UNCHANGED <<pc, putBusy, incoming, typed>>

ConsoleStep(t) ==
  \/ AcquireOut(t) \/ PutChar(t) \/ AwaitOut(t) \/ ReleaseOut(t)
  \/ AcquireIn(t) \/ AwaitIn(t) \/ GetChar(t)

(* One character on the display at a time (ASSERT(putBusy == FALSE)). *)
DisplayOneAtATime ==
  /\ \A t \in Thread : pc[t] = "putLocked" => ~putBusy
  /\ \A t \in Thread : pc[t] = "putDone" => ~putBusy /\ value[OutDone] = 0

(* The keyboard is polled, or has a character for which there is one unit or one reader:   *)
(* never two of these, so that no poll finds a character still there                       *)
(* (ASSERT(incoming == EOF)) and no reader an old one; and none of them only after EOF,    *)
(* when nobody is served any more.                                                         *)
KeyboardTokens == (IF polling THEN 1 ELSE 0) + value[InAvail]
                    + Cardinality({t \in Thread : pc[t] = "getDone"})
OneKeystroke ==
  /\ KeyboardTokens <= 1
  /\ KeyboardTokens = 0 => ended
  /\ polling => incoming = EOF
=============================================================================
