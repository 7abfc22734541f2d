---------------------------- MODULE ExtendedFile ----------------------------
(***************************************************************************)
(* What the extender of an encrypted file promises to those who read the   *)
(* file and those who commit it.                                            *)
(***************************************************************************)
EXTENDS Integers

VARIABLES
    isnew,      \* of->newfile
    ofile,      \* the open file: its size, the chunks it has, those of the log
    thread,     \* where the extender thread is
    aborted,    \* the assertion that stopped the client, or "no"
    misled,     \* a truncation gave a killed extender a new target
    holes       \* chunks that were not there when a read came to them

Chunks(from, to) == from..to-1

Active == thread # "none"     \* of->extender is set
Running == aborted = "no"

(* Without an extender the file has every chunk below its size: no target,  *)
(* kill or failure leaves one unwritten.                                    *)
NoHoles == (isnew /\ ~Active /\ Running /\ ~misled) => Chunks(0, ofile.currentsize) \subseteq ofile.filled

(* A read finds every chunk it comes to: it waited for the extender.        *)
ReadsAreFilled == ~misled => holes = {}
=============================================================================
