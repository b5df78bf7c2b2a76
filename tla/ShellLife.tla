----------------------------- MODULE ShellLife -----------------------------
(***************************************************************************)
(* The life of the shell thread: the main loop creates it on the heap,     *)
(* sees that it has terminated, releases it and creates another (main.c,   *)
(* shell.c, chdynamic.c), while the shell's threads command walks the      *)
(* kernel's registry of threads with a reference on the one it stands at   *)
(* (shellCommands.c, chregistry.c).                                        *)
(*                                                                         *)
(* A thread object is static or a heap block.  An actor is the main loop   *)
(* or a shell; an action is what it does with the kernel locked, or one    *)
(* step between two locked sections.                                       *)
(***************************************************************************)
EXTENDS Naturals, Sequences, SequencesExt, FiniteSets

CONSTANTS
  Statics,   (* registry at start-up: main, idle and the DCM thread         *)
  Blocks,    (* heap blocks that can hold a shell's working area            *)
  NoThread   (* NULL                                                        *)

Static  == Range(Statics)
Objects == Static \cup Blocks
Actors  == {"main"} \cup Blocks

ASSUME ShellLifeAssumption ==
  /\ Statics \in Seq(Static) /\ Statics # <<>> /\ IsInjective(Statics)
  /\ Blocks # {} /\ Static \cap Blocks = {} /\ "main" \notin Blocks
  /\ NoThread \notin Objects

MainPoints  == {"control", "manage", "clear"}
ShellPoints == {"none", "prompt", "walk", "final"}
Releasing   == {"decrement", "unlink", "free"}

VARIABLES
  at,        (* the point each actor has reached                            *)
  shelltp,   (* the main loop's pointer                                     *)
  registry,  (* the registry list, oldest first                             *)
  refs,      (* p_refs                                                      *)
  cursor,    (* the thread each shell's threads command stands at           *)
  released   (* the argument of the running chThdRelease of each actor      *)

lifeVars == <<at, shelltp, registry, refs, cursor, released>>

LifeTypeOK ==
  /\ at \in [Actors -> MainPoints \cup ShellPoints \cup Releasing]
  /\ at["main"] \in MainPoints \cup Releasing
  /\ \A b \in Blocks : at[b] \in ShellPoints \cup Releasing
  /\ shelltp \in Blocks \cup {NoThread}
  /\ registry \in Seq(Objects) /\ IsInjective(registry)
  /\ refs \in [Objects -> 0 .. 255]
  /\ cursor \in [Blocks -> Objects \cup {NoThread}]
  /\ released \in [Actors -> Objects \cup {NoThread}]

(* Static threads have the reference of their creation.                    *)
LifeInit ==
  /\ at = [a \in Actors |-> IF a = "main" THEN "control" ELSE "none"]
  /\ shelltp = NoThread
  /\ registry = Statics
  /\ refs = [t \in Objects |-> IF t \in Static THEN 1 ELSE 0]
  /\ cursor = [b \in Blocks |-> NoThread]
  /\ released = [a \in Actors |-> NoThread]
-----------------------------------------------------------------------------
Go(a, from, to) == at[a] = from /\ at' = [at EXCEPT ![a] = to]

(* control() returns.                                                      *)
Control ==
  /\ Go("main", "control", "manage")
  /\ UNCHANGED <<shelltp, registry, refs, cursor, released>>

(* Mutant: a shell is created on every pass.                               *)
CreateAlways(b) ==
  /\ at["main"] = "manage"
  /\ at[b] = "none"
  /\ at' = [at EXCEPT !["main"] = "control", ![b] = "prompt"]
  /\ shelltp' = b
  /\ registry' = Append(registry, b)
  /\ refs' = [refs EXCEPT ![b] = 1]
  /\ UNCHANGED <<cursor, released>>

(* shellCreate: the block is taken, the thread gets its first reference    *)
(* and goes to the end of the registry.  Its answer NULL, when the heap is *)
(* exhausted, has no action: HeapIsWhole shows that every block is there.  *)
Create(b) ==
  /\ at["main"] = "manage" /\ shelltp = NoThread
  /\ at[b] = "none"
  /\ at' = [at EXCEPT !["main"] = "control", ![b] = "prompt"]
  /\ shelltp' = b
  /\ registry' = Append(registry, b)
  /\ refs' = [refs EXCEPT ![b] = 1]
  /\ UNCHANGED <<cursor, released>>

(* The shell is alive: nothing to do.                                      *)
Alive ==
  /\ shelltp # NoThread /\ at[shelltp] # "final"
  /\ Go("main", "manage", "control")
  /\ UNCHANGED <<shelltp, registry, refs, cursor, released>>

(* chThdTerminated: the main loop calls chThdRelease.                      *)
Reap ==
  /\ shelltp # NoThread /\ at[shelltp] = "final"
  /\ Go("main", "manage", "decrement")
  /\ released' = [released EXCEPT !["main"] = shelltp]
  /\ UNCHANGED <<shelltp, registry, refs, cursor>>

(* Mutant: the pointer is not reset.                                       *)
ClearForgotten ==
  /\ Go("main", "clear", "control")
  /\ UNCHANGED <<shelltp, registry, refs, cursor, released>>

(* shelltp = NULL.                                                         *)
Clear ==
  /\ Go("main", "clear", "control")
  /\ shelltp' = NoThread
  /\ UNCHANGED <<registry, refs, cursor, released>>

(* chThdRelease returns: to the main loop, or to the walk, which ends when *)
(* there is no next thread.                                                *)
Returned(a) ==
  IF a = "main" THEN "clear" ELSE IF cursor[a] = NoThread THEN "prompt" ELSE "walk"

(* Mutant: the counter tested before it is decremented.                    *)
DecrementLate(a) ==
  /\ at[a] = "decrement"
  /\ LET t == released[a]
     IN  /\ refs' = [refs EXCEPT ![t] = @ - 1]
         /\ at' = [at EXCEPT ![a] =
                     IF refs[t] = 0 /\ t \in Blocks /\ at[t] = "final"
                     THEN "unlink" ELSE Returned(a)]
  /\ UNCHANGED <<shelltp, registry, cursor, released>>

(* The locked part of chThdRelease, and the test that follows it.          *)
Decrement(a) ==
  /\ at[a] = "decrement"
  /\ LET t == released[a]
     IN  /\ refs' = [refs EXCEPT ![t] = @ - 1]
         /\ at' = [at EXCEPT ![a] =
                     IF refs'[t] = 0 /\ t \in Blocks /\ at[t] = "final"
                     THEN "unlink" ELSE Returned(a)]
  /\ UNCHANGED <<shelltp, registry, cursor, released>>

PlaceOf(t) == CHOOSE i \in DOMAIN registry : registry[i] = t

(* REG_REMOVE, done with the kernel unlocked.                              *)
Unlink(a) ==
  /\ Go(a, "unlink", "free")
  /\ registry' = RemoveAt(registry, PlaceOf(released[a]))
  /\ UNCHANGED <<shelltp, refs, cursor, released>>

(* chHeapFree.                                                             *)
Free(a) ==
  /\ at[a] = "free"
  /\ at' = [at EXCEPT ![a] = Returned(a), ![released[a]] = "none"]
  /\ UNCHANGED <<shelltp, registry, refs, cursor, released>>

(* cmd_threads: chRegFirstThread.                                          *)
FirstThread(b) ==
  /\ Go(b, "prompt", "walk")
  /\ cursor' = [cursor EXCEPT ![b] = Head(registry)]
  /\ refs' = [refs EXCEPT ![Head(registry)] = @ + 1]
  /\ UNCHANGED <<shelltp, registry, released>>

Newer(t) ==
  IF PlaceOf(t) < Len(registry) THEN registry[PlaceOf(t) + 1] ELSE NoThread

(* Mutant: chRegNextThread takes no reference.                             *)
NextThreadUncounted(b) ==
  /\ Go(b, "walk", "decrement")
  /\ cursor' = [cursor EXCEPT ![b] = Newer(cursor[b])]
  /\ released' = [released EXCEPT ![b] = cursor[b]]
  /\ UNCHANGED <<shelltp, registry, refs>>

(* The line is printed and chRegNextThread called: the next thread is      *)
(* referenced with the kernel locked, then the last one is released.       *)
NextThread(b) ==
  /\ Go(b, "walk", "decrement")
  /\ LET next == Newer(cursor[b])
     IN  /\ cursor' = [cursor EXCEPT ![b] = next]
         /\ refs' = IF next = NoThread THEN refs ELSE [refs EXCEPT ![next] = @ + 1]
  /\ released' = [released EXCEPT ![b] = cursor[b]]
  /\ UNCHANGED <<shelltp, registry>>

(* exit, or Ctrl-D: chThdExitS leaves a heap thread in the registry.       *)
Exit(b) ==
  /\ Go(b, "prompt", "final")
  /\ UNCHANGED <<shelltp, registry, refs, cursor, released>>

Release(a) == Decrement(a) \/ Unlink(a) \/ Free(a)

MainLoop == Control \/ (\E b \in Blocks : Create(b)) \/ Alive
            \/ Reap \/ Clear \/ Release("main")

Shell(b) == FirstThread(b) \/ NextThread(b) \/ Release(b) \/ Exit(b)

LifeNext == MainLoop \/ \E b \in Blocks : Shell(b)

(* The main loop takes its turn: it sleeps in control() and shares its     *)
(* priority with the shell round robin.                                    *)
LifeSpec == LifeInit /\ [][LifeNext]_lifeVars /\ WF_lifeVars(MainLoop)
-----------------------------------------------------------------------------
Walking(b) == cursor[b] # NoThread

(* The threads command never stands at a thread that has left the registry *)
(* or whose working area went back to the heap.                            *)
CursorIsRegistered ==
  \A b \in Blocks : Walking(b) =>
    \E i \in DOMAIN registry : registry[i] = cursor[b]

Creator(t) ==
  IF t \in Static \/ (at[t] # "none" /\ shelltp = t
                      /\ at["main"] \notin {"unlink", "free", "clear"})
  THEN 1 ELSE 0
At(t)      == {b \in Blocks : cursor[b] = t}
Leaving(t) == {b \in Blocks : at[b] = "decrement" /\ released[b] = t}

(* p_refs counts the creator's reference and those of the walks that stand *)
(* at a thread or are about to release it.                                 *)
RefsAreExact ==
  \A t \in Objects :
    refs[t] = Creator(t) + Cardinality(At(t)) + Cardinality(Leaving(t))

(* REG_REMOVE runs unlocked: safe because nobody walks the registry then.  *)
UnlinkedAlone ==
  \A a \in Actors : at[a] = "unlink" => \A b \in Blocks : ~Walking(b)

(* A terminated shell's working area is back on the heap when the next one *)
(* is asked for: the heap does not run out however often the shell exits.  *)
HeapIsWhole ==
  at["main"] = "manage" /\ shelltp = NoThread => \A b \in Blocks : at[b] = "none"

(* After a shell has gone there is another.                                *)
ShellComesBack ==
  \A b \in Blocks : at[b] = "final" ~> \E c \in Blocks : at[c] = "prompt"
=============================================================================
