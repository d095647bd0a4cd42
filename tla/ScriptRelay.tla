----------------------------- MODULE ScriptRelay -----------------------------
(***************************************************************************)
(* script: a process that passes what is typed on to a shell behind a      *)
(* pseudoterminal, and what comes back to the screen and to a file.  The   *)
(* keyboard, the shell and the kernel's queues are external; what passes   *)
(* is counted.                                                             *)
(***************************************************************************)
EXTENDS IoBase

CONSTANTS TypedMax,    \* what is typed
          PtyCap       \* what a direction of the pseudoterminal holds

ASSUME ScriptAssumption == TypedMax \in Nat /\ PtyCap \in Nat \ {0}

VARIABLES scat,        \* script's place
          inFds,       \* in_fds, as select() returned it
          typed,       \* what has been typed
          keys,        \* what of it has not been read
          hungup,      \* end of file at the keyboard
          ptyin,       \* on its way to the shell
          shell,       \* the shell's place
          output,      \* what it has written
          ptyout,      \* what of it has not been read
          block,       \* what script has read and not yet passed on
          screen, file \* what it has written to each

scriptVars == <<scat, inFds, typed, keys, hungup, ptyin, shell, output, ptyout, block, screen, file>>

ScriptInit == /\ scat = "fork" /\ inFds = {} /\ typed = 0 /\ keys = 0 /\ hungup = FALSE
              /\ ptyin = 0 /\ shell = "none" /\ output = 0 /\ ptyout = 0 /\ block = 0
              /\ screen = 0 /\ file = 0

ScGoto(a, b) == scat = a /\ scat' = b
ScOnly       == UNCHANGED <<typed, hungup, shell, output>>
----------------------------------------------------------------------------
\* The shell reads a line, writes as much, or ends; with script it ends too.
Shell ==
  /\ prog = "script" /\ UNCHANGED <<inFds, typed, keys, hungup, block, screen, file, faults, scat>>
  /\ \/ shell = "read" /\ ptyin > 0 /\ shell' = "write" /\ ptyin' = ptyin - 1
        /\ UNCHANGED <<output, ptyout>>
     \/ shell = "write" /\ ptyout < PtyCap /\ shell' = "read"
        /\ output' = output + 1 /\ ptyout' = ptyout + 1 /\ UNCHANGED ptyin
     \/ shell \in {"read", "write"} /\ scat \in {"exit", "failed"} /\ shell' = "ended"
        /\ UNCHANGED <<ptyin, output, ptyout>>

Keyboard ==
  /\ prog = "script" /\ ~hungup
  /\ \/ typed < TypedMax /\ typed' = typed + 1 /\ keys' = keys + 1 /\ UNCHANGED hungup
     \/ hungup' = TRUE /\ UNCHANGED <<typed, keys>>
  /\ UNCHANGED <<scat, inFds, ptyin, shell, output, ptyout, block, screen, file, faults>>

\* By exit, or by a signal.
ShellEnds ==
  /\ prog = "script" /\ shell \in {"read", "write"} /\ shell' = "ended"
  /\ UNCHANGED <<scat, inFds, typed, keys, hungup, ptyin, output, ptyout, block, screen, file, faults>>

\* ptyFork, and the child's execlp of the shell.
PtyFork == /\ ScGoto("fork", "open") /\ shell' = "read"
           /\ UNCHANGED <<inFds, typed, keys, hungup, ptyin, output, ptyout, block, screen, file, faults>>

\* ptyFork or the open of the typescript fails.
StartFails == /\ prog = "script" /\ Fault /\ scat \in {"fork", "open"} /\ scat' = "failed"
              /\ ScOnly /\ UNCHANGED <<inFds, keys, ptyin, ptyout, block, screen, file>>

OpenTypescript == /\ ScGoto("open", "select") /\ ScOnly
                  /\ UNCHANGED <<inFds, keys, ptyin, ptyout, block, screen, file, faults>>

ReadyFds == (IF keys > 0 \/ hungup THEN {"stdin"} ELSE {})
              \cup (IF ptyout > 0 \/ shell = "ended" THEN {"master"} ELSE {})

Select2 == /\ ScGoto("select", "stdin") /\ ReadyFds # {} /\ inFds' = ReadyFds
           /\ ScOnly /\ UNCHANGED <<keys, ptyin, ptyout, block, screen, file, faults>>

\* read() of what there is, or the end; the write() waits for room, and fails
\* when the shell is gone.
FromKeyboard ==
  /\ \/ /\ "stdin" \in inFds /\ keys > 0 /\ ScGoto("stdin", "toShell")
        /\ keys' = 0 /\ block' = keys /\ UNCHANGED ptyin
     \/ "stdin" \in inFds /\ keys = 0 /\ ScGoto("stdin", "exit") /\ UNCHANGED <<keys, ptyin, block>>
     \/ "stdin" \notin inFds /\ ScGoto("stdin", "master") /\ UNCHANGED <<keys, ptyin, block>>
     \/ shell = "ended" /\ ScGoto("toShell", "failed") /\ UNCHANGED <<keys, ptyin, block>>
     \/ /\ shell # "ended" /\ ptyin < PtyCap
        /\ ScGoto("toShell", IF block = 1 THEN "master" ELSE "toShell")
        /\ ptyin' = ptyin + 1 /\ block' = block - 1 /\ UNCHANGED keys
  /\ ScOnly /\ UNCHANGED <<inFds, ptyout, screen, file, faults>>

FromShell ==
  /\ \/ /\ "master" \in inFds /\ ptyout > 0 /\ ScGoto("master", "toScreen")
        /\ block' = ptyout /\ ptyout' = 0 /\ UNCHANGED <<screen, file>>
     \/ /\ "master" \in inFds /\ ptyout = 0 /\ ScGoto("master", "exit")
        /\ UNCHANGED <<ptyout, block, screen, file>>
     \/ "master" \notin inFds /\ ScGoto("master", "select") /\ UNCHANGED <<ptyout, block, screen, file>>
     \/ ScGoto("toScreen", "toFile") /\ screen' = screen + block /\ UNCHANGED <<ptyout, block, file>>
     \/ ScGoto("toFile", "select") /\ file' = file + block /\ block' = 0 /\ UNCHANGED <<ptyout, screen>>
  /\ ScOnly /\ UNCHANGED <<inFds, keys, ptyin, faults>>

ScriptMain == prog = "script" /\ (PtyFork \/ OpenTypescript \/ Select2 \/ FromKeyboard \/ FromShell)

ScriptStep == ScriptMain \/ StartFails \/ Shell \/ ShellEnds \/ Keyboard
----------------------------------------------------------------------------
(* The file is the screen, but for the block being written, and neither    *)
(* misses any of what the shell has written when script has seen the       *)
(* shell's end; what is typed reaches the shell once.                      *)
ScriptWhole ==
  /\ file = IF scat = "toFile" THEN screen - block ELSE screen
  /\ scat = "exit" /\ ~hungup => file = output /\ shell = "ended"
  /\ scat \in {"select", "stdin"} => output = screen + ptyout

(* script ends after the shell or at the end of its input, unless it waits *)
(* to pass input on to a shell that waits to write: nobody reads then.     *)
ScriptEnds ==
  prog = "script" =>
    \/ scat \in {"exit", "failed"}
    \/ ~hungup /\ shell # "ended"
    \/ scat = "toShell" /\ ptyin = PtyCap /\ shell = "write" /\ ptyout = PtyCap
=============================================================================
