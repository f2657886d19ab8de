----------------------------- MODULE CallStack -----------------------------
(***************************************************************************)
(* What the interpreter promises a program about its calls: a stack of     *)
(* activations, each with the module and the instruction it stands at, and *)
(* the rescues in force.  There are no frames, stack extensions, link      *)
(* registers or patched return addresses here: DisStack has those.         *)
(***************************************************************************)
EXTENDS Naturals, Sequences, FiniteSetsExt

CONSTANTS
  Types,    \* the types of frames
  Module,   \* the modules
  Label,    \* the instructions of each that are told apart
  Pattern,  \* the patterns programs pass to rescue
  Err       \* the exceptions that occur, besides the empty one of progexit

VARIABLES
  stack,   \* activations, the outermost first: [t, mod, pc]
  tries,   \* the rescues in force, the oldest first: [depth, pat, pc]
  active,  \* which of them has been raised and not yet answered, or 0
  err,     \* the last exception
  state    \* "run", "broken" or "gone"

vars == << stack, tries, active, err, state >>

\* A pattern is the exception itself, or a prefix of it followed by a star.
Matches(pat, e) ==
  \/ pat = e
  \/ /\ pat # << >> /\ pat[Len(pat)] = "*"
     /\ Len(pat) - 1 <= Len(e)
     /\ SubSeq(pat, 1, Len(pat) - 1) = SubSeq(e, 1, Len(pat) - 1)

Broken(e) == e # << >> /\ e[1] \notin {"fail:", "interrupted"}

Depth == Len(stack)
Here == stack[Depth]
At(l) == [mod |-> Here.mod, at |-> l]

\* A function just called: it stands in its module.
Activation ==
  {a \in [t : Types, mod : Module, pc : [mod : Module, at : Label]] : a.pc.mod = a.mod}

Init ==
  /\ \E a \in Activation : stack = << a >>
  /\ tries = << >> /\ active = 0 /\ err = << >> /\ state = "run"

Call ==
  /\ UNCHANGED << state, err, active >>
  /\ Len(stack') = Depth + 1
  /\ SubSeq(stack', 1, Depth) = stack
  /\ stack'[Depth + 1] \in Activation
  /\ UNCHANGED tries

Exit(e) ==
  /\ state' = IF Broken(e) THEN "broken" ELSE "gone"
  /\ stack' = << >> /\ tries' = << >> /\ active' = 0

\* The newest of the rescues ts that match is resumed, in its activation.
Raise(e, ts, busy) ==
  /\ err' = e
  /\ LET hit == {i \in 1..Len(ts) : Matches(ts[i].pat, e)}
     IN IF busy \/ hit = {} THEN Exit(e)
        ELSE LET i == Max(hit)
                 d == ts[i].depth
             IN /\ active' = i
                /\ stack' = [SubSeq(stack, 1, d) EXCEPT ![d].pc = ts[i].pc]
                /\ tries' = SelectSeq(ts, LAMBDA r : r.depth <= d)
                /\ UNCHANGED state

\* The outermost activation ends the program with the empty exception.
Return ==
  IF Depth = 1 THEN Raise(<< >>, tries, active # 0)
  ELSE /\ UNCHANGED << state, err, active >>
       /\ stack' = SubSeq(stack, 1, Depth - 1)
       /\ active # 0 => tries[active].depth # Depth
       /\ tries' = SelectSeq(tries, LAMBDA r : r.depth < Depth)

Rescue ==
  /\ UNCHANGED << state, err, active >>
  /\ Len(tries') = Len(tries) + 1
  /\ \E p \in Pattern, l \in Label :
       /\ stack' = [stack EXCEPT ![Depth].pc = At(l)]
       /\ tries' = Append(tries, [depth |-> Depth, pat |-> p, pc |-> At(l)])

Unrescue ==
  /\ active' = 0 /\ UNCHANGED << state, err >>
  /\ tries' = IF tries # << >> /\ tries[Len(tries)].depth = Depth
                THEN SubSeq(tries, 1, Len(tries) - 1) ELSE tries
  /\ UNCHANGED stack

Others == SubSeq(tries, 1, active - 1) \o SubSeq(tries, active + 1, Len(tries))

\* rescued: the exception has been dealt with; the rescue stays in force
\* (ACTIVE), is withdrawn (ONCE), is withdrawn and the exception, or another,
\* raised again (RAISE), or the program ends (EXIT).
Answer ==
  /\ active # 0
  /\ \/ active' = 0 /\ UNCHANGED << stack, tries, err, state >>
     \/ active' = 0 /\ tries' = Others /\ UNCHANGED << stack, err, state >>
     \/ \E e \in Err \cup {err} : Raise(e, Others, FALSE)
     \/ Exit(err) /\ UNCHANGED err

Next ==
  /\ state = "run"
  /\ \/ Call
     \/ Return
     \/ Rescue
     \/ Unrescue
     \/ Answer
     \/ \E e \in Err : Raise(e, tries, active # 0)

Spec == Init /\ [][Next]_vars
=============================================================================
