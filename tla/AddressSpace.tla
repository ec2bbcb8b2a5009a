---------------------------- MODULE AddressSpace ----------------------------
(***************************************************************************)
(* What the memory layer promises: every process has a private address     *)
(* space.  execve() gives a new process what loading the file makes, fork()*)
(* gives the child an equal copy in which only the result of the call and  *)
(* the saved context differ, and a store changes one word of one process.  *)
(***************************************************************************)
CONSTANTS
    Procs,
    Kproc,      \* the kernel, which starts the first program; not in Procs
    VAs,        \* pages of a user address space
    Offsets,    \* words of a page
    Words,      \* what a word of user memory may hold
    Programs,   \* what a file loads: functions from pages to contents
    StackPage,  \* the page with the context of a process
    ContextWords    \* the words of the context that fork() sets

VARIABLES
    live,   \* processes that can run
    space   \* space[p]: the content of each page that p has mapped

asvars == <<live, space>>

Empty == [va \in {} |-> 0]

ASInit == live = {} /\ space = [p \in Procs |-> Empty]

Exec(c, np) ==
    /\ c \in live \/ (c = Kproc /\ live = {})
    /\ np \notin live
    /\ live' = live \union {np}
    /\ \E program \in Programs :
        space' = [space EXCEPT ![np] = program]

Fork(p, np) ==
    /\ p \in live /\ np \notin live
    /\ live' = live \union {np}
    /\ \E frame \in VAs, a0 \in Offsets, context \in [ContextWords -> Words] :
        space' = [space EXCEPT ![np] =
            [va \in DOMAIN space[p] |-> [i \in Offsets |->
                IF va = StackPage /\ i \in ContextWords THEN context[i]
                ELSE IF va = frame /\ i = a0 THEN 0
                ELSE space[p][va][i]]]]

Store(p, va, i, w) ==
    /\ UNCHANGED live
    /\ p \in live /\ va \in DOMAIN space[p]
    /\ space' = [space EXCEPT ![p][va][i] = w]

Exit(p) ==
    /\ p \in live
    /\ live' = live \ {p}
    /\ space' = [space EXCEPT ![p] = Empty]

ASNext ==
    \/ \E c \in Procs \union {Kproc}, np \in Procs : Exec(c, np)
    \/ \E p, np \in Procs : Fork(p, np)
    \/ \E p \in Procs, va \in VAs, i \in Offsets, w \in Words : Store(p, va, i, w)
    \/ \E p \in Procs : Exit(p)

ASSpec == ASInit /\ [][ASNext]_asvars

=============================================================================
