------------------------------- MODULE Console -------------------------------
(***************************************************************************)
(* The serial console of Core 0: the shell reads the bytes of the UART,    *)
(* and a line that is the command "edit" (shell.rs, execute_command) hands *)
(* them to the screen editor until it quits.                               *)
(***************************************************************************)
EXTENDS ShellLine, Editor

CONSTANT EditLine      \* the line that starts the editor

consoleVars == <<vars, edVars>>

\* Bound: one session of the editor, as the first command, is followed to its end.
Session == executed # << >> /\ executed[1] = EditLine

\* execute_command
Execute == IF Session' THEN Start
           ELSE UNCHANGED edVars /\ EditLine \notin {executed'[k] : k \in DOMAIN executed'}

ShellByte == mode = "closed" /\ ~ Session /\ Next /\ Execute
EditorByte == mode # "closed" /\ EdNext /\ UNCHANGED vars

ConsoleInit == Init /\ EdInit
ConsoleNext == ShellByte \/ EditorByte
ConsoleSpec == ConsoleInit /\ [][ConsoleNext]_consoleVars

-----------------------------------------------------------------------------
\* The shell's line and cursor stay in its buffer, the editor's text and cursor in its.
ConsoleTypeOK == TypeOK /\ EdTypeOK
=============================================================================
