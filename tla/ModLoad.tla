------------------------------ MODULE ModLoad ------------------------------
(***************************************************************************)
(* Loading modules: iload (interp/xec.c), readmod.c, parsemod, lookmod and *)
(* unload (load.c), linkmod (link.c) and native modules (Plan9/dl.c).  The *)
(* table `modules' caches what was loaded, newest first.  A load of a file *)
(* gives up the VM (release) to look at the file, so that Progs load at    *)
(* the same time, and the file may change at any moment.  A reference to a *)
(* module is a Modlink, or a load that found it.                           *)
(***************************************************************************)
EXTENDS Naturals, Sequences, SequencesExt, FiniteSets, FiniteSetsExt, Functions

CONSTANTS
  Progs,    \* the Progs; each loads into a variable of its own
  Kinds,    \* what a file may be: "dis", "nolink" (a function the loader
            \* wants is not there, or not with its signature), "bad",
            \* "native" or "none" (there is no file)
  MaxVers,  \* bound: how often the file changes,
  MaxKept   \* bound: how often a native module takes the place of a Dis one

Nil == 0
Sys == 1   \* the built-in module, of path "$Sys"
Boot == 2  \* the module the Progs run
Path == {"$self", "$Sys", "$No", "f"}

VARIABLES
  file,     \* [vers, kind], the file f; vers stands for qid and mtime
  modules,  \* the table, a sequence of modules
  mod,      \* module -> [path, label, vers, kind, ref, kept]: label is the
            \* version it was recorded with and vers the one it was read from;
            \* kept counts references nobody will ever drop
  slot,     \* Prog -> the module its variable's Modlink is for
  job       \* Prog -> the load under way, [pc, m, ans, label, code, since]

vars == << file, modules, mod, slot, job >>

Idle == [pc |-> "idle", m |-> Nil, ans |-> Nil, label |-> 0,
         code |-> [vers |-> 0, kind |-> "none"], since |-> 0]
NoCode == Idle.code

-----------------------------------------------------------------------------
(* The table with its modules, t = [list, mod]. *)

Table == [list |-> modules, mod |-> mod]
Ref(t, m) == [t EXCEPT !.mod[m].ref = @ + 1]
unload(t, m) ==
  IF m = Nil THEN t
  ELSE IF t.mod[m].ref > 1 THEN [t EXCEPT !.mod[m].ref = @ - 1]
  ELSE [list |-> RemoveFirst(t.list, m),
        mod |-> Restrict(t.mod, (DOMAIN t.mod) \ {m})]

\* The module a table gets next.
Fresh(t) == CHOOSE m \in 1..(Cardinality(DOMAIN t.mod) + 1) : m \notin DOMAIN t.mod
Added(t, label, code) ==
  [list |-> << Fresh(t) >> \o t.list,
   mod |-> [m \in DOMAIN t.mod \cup {Fresh(t)} |->
              IF m \in DOMAIN t.mod THEN t.mod[m]
              ELSE [path |-> IF code.kind = "native" THEN "" ELSE "f",
                    label |-> label, vers |-> code.vers, kind |-> code.kind,
                    ref |-> 1, kept |-> 0]]]

\* lookmod: the first module of the path.  A native module has no path: the
\* comparison with it is an error, which ends the load before it has done
\* anything.
Before(path) == {k \in 1..Len(modules) :
                   \A j \in 1..(k - 1) : mod[modules[j]].path # path}
LookFails(path) == \E k \in Before(path) : mod[modules[k]].path = ""
lookmod(path) ==
  LET ks == {k \in Before(path) : mod[modules[k]].path = path}
  IN IF ks = {} THEN Nil ELSE modules[CHOOSE k \in ks : TRUE]

\* The end of iload: linkmod makes a Modlink for m, which destroy() frees if
\* a function is missing; the variable's old Modlink is destroyed after that.
LinkedTo(t, p, m) ==
  LET fails == m # Nil /\ t.mod[m].kind = "nolink"
      t1 == IF fails THEN unload(t, m) ELSE t
      t2 == unload(t1, slot[p])
  IN /\ modules' = t2.list /\ mod' = t2.mod
     /\ slot' = [slot EXCEPT ![p] = IF fails THEN Nil ELSE m]

-----------------------------------------------------------------------------
LoadInit ==
  /\ file = [vers |-> 1, kind |-> "dis"]
  /\ modules = << Boot, Sys >>
  /\ mod = [m \in {Boot, Sys} |->
              [path |-> IF m = Sys THEN "$Sys" ELSE "boot", label |-> 0, vers |-> 0,
               kind |-> "dis", ref |-> 1, kept |-> 1]]
  /\ slot = [p \in Progs |-> Nil]
  /\ job = [p \in Progs |-> Idle]

\* A load that needs no file: $self, or a built-in module by its name.
IloadBuiltin(p, path) ==
  /\ job[p] = Idle /\ path # "f" /\ (path # "$self" => ~LookFails(path))
  /\ LET m == IF path = "$self" THEN Boot ELSE lookmod(path)
     IN LinkedTo(IF m = Nil THEN Table ELSE Ref(Table, m), p, m)
  /\ UNCHANGED << file, job >>

\* VARIANT of Iload: lookmod does not count.
IloadUncounted(p) ==
  /\ job[p] = Idle /\ ~LookFails("f")
  /\ job' = [job EXCEPT ![p] = [Idle EXCEPT !.pc = "open", !.m = lookmod("f"),
                                            !.since = file.vers]]
  /\ UNCHANGED << file, modules, mod, slot >>
\* lookmod counts a reference of its own, then readmod releases the VM.
Iload(p) ==
  /\ job[p] = Idle /\ ~LookFails("f")
  /\ LET m == lookmod("f")
     IN /\ job' = [job EXCEPT ![p] = [Idle EXCEPT !.pc = "open", !.m = m,
                                                  !.since = file.vers]]
        /\ mod' = IF m = Nil THEN mod ELSE Ref(Table, m).mod
  /\ UNCHANGED << file, modules, slot >>

Open(p) ==
  /\ job[p].pc = "open"
  /\ job' = [job EXCEPT ![p].pc = IF file.kind = "none" THEN "acquire" ELSE "fstat"]
  /\ UNCHANGED << file, modules, mod, slot >>

\* fstat of a file that is gone fails; a module of the same version will do.
Fstat(p) ==
  /\ job[p].pc = "fstat"
  /\ LET m == job[p].m
         same == m # Nil /\ mod[m].label = file.vers
     IN job' = IF file.kind = "none" THEN [job EXCEPT ![p].pc = "acquire"]
               ELSE [job EXCEPT ![p].label = file.vers,
                                ![p].ans = IF same THEN m ELSE Nil,
                                ![p].pc = IF same THEN "acquire" ELSE "native"]
  /\ UNCHANGED << file, modules, mod, slot >>

ParseNativeMod(p) ==
  /\ job[p].pc = "native"
  /\ job' = IF file.kind = "native"
            THEN [job EXCEPT ![p].code = file, ![p].pc = "acquire"]
            ELSE [job EXCEPT ![p].pc = "read"]
  /\ UNCHANGED << file, modules, mod, slot >>

\* As many bytes are read as fstat said: less is a failure, and of a file
\* that grew meanwhile the rest is missing.
KreadOf(p) ==
  {NoCode} \cup (IF file.kind = "none" THEN {} ELSE {file})
           \cup (IF file.vers = job[p].label THEN {} ELSE {[file EXCEPT !.kind = "bad"]})
Kread(p) ==
  /\ job[p].pc = "read"
  /\ \E code \in KreadOf(p) :
       job' = [job EXCEPT ![p].code = IF code.kind = "native" THEN [code EXCEPT !.kind = "bad"] ELSE code,
                          ![p].pc = "acquire"]
  /\ UNCHANGED << file, modules, mod, slot >>

\* VARIANT of Recorded: the file is looked at again when it has been read.
RecordedLate(p) == file.vers
\* What parsemod and readmod record as the version of what was read.
Recorded(p) == job[p].label

\* With the VM again: the module that was found serves, or a native one is
\* entered (the reference to the one found is then kept for ever), or what
\* was found is given up and what was read is parsed.
Acquire(p) ==
  /\ job[p].pc = "acquire"
  /\ LET j == job[p]
         t == IF j.ans # Nil THEN Table
              ELSE IF j.code.kind = "native" THEN
                IF j.m = Nil THEN Table ELSE [Table EXCEPT !.mod[j.m].kept = @ + 1]
              ELSE unload(Table, j.m)
     IN /\ j.m # Nil /\ j.code.kind = "native" => mod[j.m].kept < MaxKept
        /\ IF j.ans # Nil THEN LinkedTo(t, p, j.ans)
           ELSE IF j.code.kind \in {"none", "bad"} THEN LinkedTo(t, p, Nil)
           ELSE LinkedTo(Added(t, Recorded(p), j.code), p, Fresh(t))
  /\ job' = [job EXCEPT ![p] = Idle]
  /\ UNCHANGED file

\* The Prog drops its Modlink.
DropLink(p) ==
  /\ job[p] = Idle /\ slot[p] # Nil
  /\ LET t == unload(Table, slot[p]) IN modules' = t.list /\ mod' = t.mod
  /\ slot' = [slot EXCEPT ![p] = Nil]
  /\ UNCHANGED << file, job >>

\* Someone writes or removes the file.
WriteFile ==
  /\ file.vers < MaxVers
  /\ \E k \in Kinds : file' = [vers |-> file.vers + 1, kind |-> k]
  /\ UNCHANGED << modules, mod, slot, job >>

LoadNext ==
  \/ WriteFile
  \/ \E p \in Progs :
       \/ \E path \in Path : IloadBuiltin(p, path)
       \/ Iload(p) \/ Open(p) \/ Fstat(p) \/ ParseNativeMod(p) \/ Kread(p)
       \/ Acquire(p) \/ DropLink(p)

LoadSpec == LoadInit /\ [][LoadNext]_vars

-----------------------------------------------------------------------------
(* The table holds each module once and holds what is referred to, and a   *)
(* module is there for as long as a Modlink or a load refers to it:        *)
(* unload's count is the number of those references.  So a load that has   *)
(* given up the VM finds its module when it has it back.                   *)
ModulesCounted ==
  /\ IsInjective(modules) /\ Range(modules) = DOMAIN mod
  /\ \A p \in Progs : {slot[p], job[p].m, job[p].ans} \ {Nil} \subseteq DOMAIN mod
  /\ \A m \in DOMAIN mod :
       /\ mod[m].ref > 0
       /\ mod[m].ref = mod[m].kept + Cardinality({p \in Progs : slot[p] = m})
                                   + Cardinality({p \in Progs : job[p].m = m})

(* A module a load gives its Prog is not older than the file was when the  *)
(* load began, though another load may have read it, at any time.          *)
LoadFresh ==
  [][\A p \in Progs :
       job[p].pc = "acquire" /\ job'[p].pc = "idle" /\ slot'[p] # Nil =>
         mod'[slot'[p]].vers >= job[p].since]_vars
=============================================================================
