------------------------------- MODULE Build -------------------------------
(***************************************************************************)
(* main.cpp and codegen_emit_executable: compiler processes that turn      *)
(* source files into executables through the temporary object file         *)
(* temp_simscript.o of the directory they run in, or into object files     *)
(* (-c).  A process can be killed at any point, a source file can be       *)
(* edited at any time, and a source file is compiled again and again.      *)
(* Each compiler names an output of its own (-o): the default, a.out, is   *)
(* one file for all of a directory.  Running a program instead (--execute) *)
(* is Compiler's Execute.                                                  *)
(***************************************************************************)
EXTENDS Integers

CONSTANTS
    Source,       \* source files; one process at a time compiles each
    Directory,    \* working directories
    DirOf,        \* where the compiler of each source file runs
    NoFile,       \* the content of a file that does not exist
    MaxVersions   \* bound: texts a source file has

ASSUME BuildAssumption ==
    /\ DirOf \in [Source -> Directory]
    /\ MaxVersions \in Nat \ {0}

VARIABLES
    version,   \* the current text of each source file
    pc,        \* where the compiler of each source file is
    read,      \* the text it has parsed, 0 for none
    temp,      \* per directory, the content of temp_simscript.o
    output,    \* the content of the executable or object asked for
    litter     \* history: a killed compiler may have left a temporary file

vars == <<version, pc, read, temp, output, litter>>

Stages == {"new", "parsed", "emitted", "failed", "linked", "exit0", "exit1"}
HoldsTemp == {"emitted", "failed", "linked"}
Active(s) == pc[s] \in HoldsTemp \union {"parsed"}
Code == [of : Source, version : 1 .. MaxVersions]

Goto(s, stage) == pc' = [pc EXCEPT ![s] = stage]

-----------------------------------------------------------------------------
(* Mistakes an author of this code could have made: each is an operation   *)
(* below with one thing wrong, and a property must notice it.              *)

(* main does not look at what yyparse returns.                             *)
StartAnyway(s) ==
    /\ ~ Active(s)
    /\ Goto(s, "parsed")
    /\ read' \in {read, [read EXCEPT ![s] = version[s]]}
    /\ UNCHANGED <<version, temp, output, litter>>

(* The result of codegen_emit_object_file is not checked.                  *)
EmitFailsUnnoticed(s) ==
    /\ pc[s] = "parsed"
    /\ Goto(s, "emitted")
    /\ UNCHANGED <<version, read, temp, output, litter>>

(* A link that failed returns without removing the temporary file.         *)
RemoveTempIfLinked(s) ==
    /\ pc[s] \in {"linked", "failed"}
    /\ IF pc[s] = "linked"
       THEN /\ temp' = [temp EXCEPT ![DirOf[s]] = NoFile]
            /\ litter' = [litter EXCEPT ![DirOf[s]] = FALSE]
       ELSE UNCHANGED <<temp, litter>>
    /\ Goto(s, IF pc[s] = "linked" THEN "exit0" ELSE "exit1")
    /\ UNCHANGED <<version, read, output>>

-----------------------------------------------------------------------------

Init ==
    /\ version = [s \in Source |-> 1]
    /\ pc = [s \in Source |-> "new"]
    /\ read = [s \in Source |-> 0]
    /\ temp = [d \in Directory |-> NoFile]
    /\ output = [s \in Source |-> NoFile]
    /\ litter = [d \in Directory |-> FALSE]

(* The user changes a source file.                                         *)
Edit(s) ==
    /\ version[s] < MaxVersions
    /\ version' = [version EXCEPT ![s] = @ + 1]
    /\ UNCHANGED <<pc, read, temp, output, litter>>

(* main up to codegen_generate: the text is read once, and it is accepted, *)
(* or the process ends (parse error, or LLVMVerifyModule aborts it).       *)
Start(s) ==
    /\ ~ Active(s)
    /\ \/ Goto(s, "parsed") /\ read' = [read EXCEPT ![s] = version[s]]
       \/ Goto(s, "exit1") /\ UNCHANGED read
    /\ UNCHANGED <<version, temp, output, litter>>

(* codegen_emit_object_file writes the temporary object, or fails before   *)
(* it has opened the file; then codegen_emit_executable returns at once.   *)
Emit(s) ==
    /\ pc[s] = "parsed"
    /\ temp' = [temp EXCEPT ![DirOf[s]] = [of |-> s, version |-> read[s]]]
    /\ Goto(s, "emitted")
    /\ UNCHANGED <<version, read, output, litter>>

(* compile_only: the object file is the output and nothing is linked.      *)
CompileOnly(s) ==
    /\ pc[s] = "parsed"
    /\ output' = [output EXCEPT ![s] = [of |-> s, version |-> read[s]]]
    /\ Goto(s, "exit0")
    /\ UNCHANGED <<version, read, temp, litter>>

EmitFails(s) ==
    /\ pc[s] = "parsed"
    /\ Goto(s, "exit1")
    /\ UNCHANGED <<version, read, temp, output, litter>>

(* system("gcc ..."): the linker takes whatever the temporary file holds;  *)
(* it may fail, and it does when there is no such file.                    *)
Link(s) ==
    /\ pc[s] = "emitted"
    /\ \/ /\ temp[DirOf[s]] # NoFile
          /\ output' = [output EXCEPT ![s] = temp[DirOf[s]]]
          /\ Goto(s, "linked")
       \/ /\ output' \in {output, [output EXCEPT ![s] = NoFile]}
          /\ Goto(s, "failed")
    /\ UNCHANGED <<version, read, temp, litter>>

(* remove(temp_obj) on both paths, then main's exit status.                *)
RemoveTemp(s) ==
    /\ pc[s] \in {"linked", "failed"}
    /\ temp' = [temp EXCEPT ![DirOf[s]] = NoFile]
    /\ litter' = [litter EXCEPT ![DirOf[s]] = FALSE]
    /\ Goto(s, IF pc[s] = "linked" THEN "exit0" ELSE "exit1")
    /\ UNCHANGED <<version, read, output>>

Kill(s) ==
    /\ Active(s)
    /\ litter' = [litter EXCEPT ![DirOf[s]] = @ \/ pc[s] \in HoldsTemp]
    /\ Goto(s, "exit1")
    /\ UNCHANGED <<version, read, temp, output>>

Next ==
    \E s \in Source :
        \/ Edit(s) \/ Start(s) \/ Emit(s) \/ CompileOnly(s) \/ EmitFails(s)
        \/ Link(s) \/ RemoveTemp(s) \/ Kill(s)

Spec == Init /\ [][Next]_vars

-----------------------------------------------------------------------------
(* A compiler has parsed some text before it writes any; a temporary file  *)
(* or an executable holds the code of one text of one source.              *)
TypeOK ==
    /\ version \in [Source -> 1 .. MaxVersions]
    /\ pc \in [Source -> Stages]
    /\ read \in [Source -> 0 .. MaxVersions]
    /\ temp \in [Directory -> Code \union {NoFile}]
    /\ output \in [Source -> Code \union {NoFile}]
    /\ litter \in [Directory -> BOOLEAN]

(* codegen.cpp:1484, "generate an executable": a compiler that ends with   *)
(* status 0 has left the program it has read.                              *)
Delivered(s) == pc[s] = "exit0" => output[s] = [of |-> s, version |-> read[s]]
ExitZeroDelivers == \A s \in Source : Delivered(s)

(* That is so in a directory of its own, whatever earlier compilers that   *)
(* were killed, or whose link failed, have left behind there.              *)
Alone(s) == \A t \in Source \ {s} : DirOf[t] # DirOf[s]
ExitZeroDeliversAlone == \A s \in Source : Alone(s) => Delivered(s)

(* codegen.cpp:1506, "clean up the temporary file": no temporary object    *)
(* outlives the compilers that are at work in its directory, failed links  *)
(* included, unless one of them was killed.                                *)
TempIsCleaned ==
    \A d \in Directory :
        temp[d] # NoFile =>
            litter[d] \/ \E s \in Source : DirOf[s] = d /\ pc[s] \in HoldsTemp
=============================================================================
