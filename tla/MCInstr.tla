------------------------------ MODULE MCInstr ------------------------------
(***************************************************************************)
(* Small instances for TLC of the modules about what a Prog executes:      *)
(* DisStack, DisString, DisCompile and ModLoad.  They share no state: each *)
(* is explored while the others have not begun.                            *)
(***************************************************************************)
EXTENDS DisStack, DisCompile, ModLoad

CONSTANTS Var, Chars, MaxLen, Quantum, Header, EmptyGrows, H
VARIABLES var, str

Str == INSTANCE DisString

MCTypes == {1, 2}
MCModule == {"m1", "m2"}
MCSS == [m1 |-> 4, m2 |-> 2]
MCPattern == {<< "*" >>, << "fail:", "*" >>}
MCErr == {<< "fault" >>, << "fail:", "x" >>}

MCOps ==
  ({"add", "sub", "mov", "shl", "shr", "bne", "blt", "ble", "bgt", "bge"} \X {"b", "w", "l"})
    \cup ({"mul", "div", "mod", "lsr"} \X {"w", "l"})
    \cup {<< "mul", "b" >>, << "beq", "b" >>, << "beq", "w" >>, << "lea", "w" >>, << "case", "w" >>}
    \cup ({"cvt"} \X {"bw", "wb", "lw", "wl"})
MCBeql == {<< "beq", "l" >>}
MCSeeds == {0, 5, 9} \X {1, 3, 6} \X {0, 1, 3, 5}

others == << ins, vars >>
MCInit == Init /\ Str!Init /\ InsInit /\ LoadInit

\* One of the initial stacks.
StackAtRest ==
  /\ pstate = "run" /\ estr = << >> /\ vm.R.M = "m1"
  /\ DOMAIN vm.frm = {Min(Ext)} /\ vm.exsp = << >>
  /\ vm.ext[Min(Ext)].TR = 1

MCNext ==
  \/ Str!Init /\ InsInit /\ LoadInit /\ Next /\ UNCHANGED << var, str, others >>
  \/ StackAtRest /\ InsInit /\ LoadInit /\ Str!Next /\ UNCHANGED << svars, others >>
  \/ StackAtRest /\ Str!Init /\ LoadInit /\ InsNext
       /\ UNCHANGED << svars, var, str, vars >>
  \/ StackAtRest /\ Str!Init /\ InsInit /\ LoadNext
       /\ UNCHANGED << svars, var, str, ins >>

MCSpec == MCInit /\ [][MCNext]_<< svars, var, str, others >>

\* DisString implements StringValues: assignment, sharing and changes in
\* place of strings of bytes and of runes give the values a program expects.
ImplementsStringValues == Str!ImplementsStringValues

\* "maximum length in representation" (interp.h): max counts runes in a
\* string of runes.
MaxInRepresentation == Str!MaxInRepresentation
=============================================================================
