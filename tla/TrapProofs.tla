----------------------------- MODULE TrapProofs -----------------------------
(***************************************************************************)
(* Proofs about trap frames and console input, for every number of         *)
(* processes, every depth of nesting and every size of getstr_buf.         *)
(***************************************************************************)
EXTENDS Trap, SequenceTheorems, WellFoundedInduction, TLAPS

Places == User \union Handler \union {Window, Kernel}
Frames == [era : Places, a0 : Nat, ie : {0, 1}]
Jobs == [what : {"done", "tick", "signal", "wait", "read"}, tf : Nat, count : Nat, pos : Nat,
         asked : Nat, mine : Seq(Keys), given : Seq(Keys), mixed : {0, 1}]

(* What the parts of the state are, the history included.                  *)
Types ==
    /\ cur \in Procs \union {Idle, Lost} /\ ie \in {0, 1} /\ ti \in {0, 1}
    /\ booted \in {0, 1}
    /\ loc \in [Procs -> Places] /\ a0 \in [Procs -> Nat]
    /\ stack \in [Procs -> Seq(Frames)] /\ expect \in [Procs -> Seq(Frames)]
    /\ work \in [Procs -> Seq(Jobs)]
    /\ \A p \in Procs : Len(work[p]) = Depth(p) /\ Depth(p) <= MaxDepth
    /\ getstr_buf \in [0..BufSize -> Keys \union {NUL}]

(* A call still to return keeps a pointer to its own frame, the d-th.      *)
OwnFrame(job, d) == job.what \in {"wait", "read"} => job.tf = d

(* A read() in progress has taken pos characters and will take no more     *)
(* than were asked for or fit; if nobody else stored into buffer b since   *)
(* it began, they are still there.                                         *)
InProgress(job, b) ==
    job.what = "read" =>
        /\ job.pos + job.count <= job.asked
        /\ Len(job.mine) = job.pos /\ job.given = <<>>
        /\ job.mixed = 0 => \A i \in 1..job.pos : b[i - 1] = job.mine[i]

Fits(job) == job.pos + job.count <= BufSize
Gives(job) ==
    /\ Len(job.given) <= job.asked
    /\ job.what # "read" /\ job.mixed = 0 => CutAtNul(job.given, job.mine)
JobOK(job, d, b) == OwnFrame(job, d) /\ InProgress(job, b) /\ Fits(job) /\ Gives(job)

JobsOK == \A p \in Procs : \A d \in 1..Depth(p) : JobOK(work[p][d], d, getstr_buf)

IInv == Types /\ FramesIntact /\ JobsOK

-----------------------------------------------------------------------------
(* Lemmas about stacks as sequences.                                       *)

(* trap_entry pushes.                                                      *)
LEMMA Pushed ==
    ASSUME NEW S, NEW s \in Seq(S), NEW e \in S
    PROVE  /\ Append(s, e) \in Seq(S) /\ Len(Append(s, e)) = Len(s) + 1
           /\ \A i \in 1..Len(s) : Append(s, e)[i] = s[i]
           /\ Append(s, e)[Len(s) + 1] = e
BY AppendProperties

(* trap_exit pops.                                                         *)
LEMMA Popped ==
    ASSUME NEW S, NEW s \in Seq(S), Len(s) > 0
    PROVE  /\ Front(s) \in Seq(S) /\ Len(Front(s)) = Len(s) - 1
           /\ \A i \in 1..(Len(s) - 1) : Front(s)[i] = s[i]
<1>1. Len(s) \in Nat /\ \A i \in 1..Len(s) : s[i] \in S
    BY LenProperties, ElementOfSeq
<1>2. \A i \in 1..(Len(s) - 1) : s[i] \in S
    BY <1>1
<1> DEFINE t == SubSeq(s, 1, Len(s) - 1)
<1>3. /\ t \in Seq(S)
      /\ Len(t) = IF 1 <= Len(s) - 1 THEN Len(s) - 1 - 1 + 1 ELSE 0
      /\ \A i \in 1..(Len(s) - 1 - 1 + 1) : t[i] = s[1 + i - 1]
    <2>1. 1 \in Int /\ Len(s) - 1 \in Int
        BY <1>1
    <2> HIDE <1>1
    <2> QED
        BY <1>2, <2>1, SubSeqProperties
<1>4. Front(s) = t
    BY Zenon DEF Front
<1> HIDE DEF t
<1>5. Len(t) = Len(s) - 1
    <2>1. \A n \in Nat : n > 0 => (IF 1 <= n - 1 THEN n - 1 - 1 + 1 ELSE 0) = n - 1
        OBVIOUS
    <2> QED
        BY <1>1, <1>3, <2>1, Zenon
<1>6. ASSUME NEW i \in 1..(Len(s) - 1) PROVE t[i] = s[i]
    <2>1. i \in 1..(Len(s) - 1 - 1 + 1) /\ 1 + i - 1 = i
        BY <1>1
    <2> QED
        BY <1>3, <2>1
<1> QED
    BY <1>3, <1>4, <1>5, <1>6

(* The job above the innermost frame is replaced.                          *)
LEMMA Replaced ==
    ASSUME NEW S, NEW s \in Seq(S), NEW e \in S
    PROVE  /\ [s EXCEPT ![Len(s)] = e] \in Seq(S) /\ Len([s EXCEPT ![Len(s)] = e]) = Len(s)
           /\ \A i \in 1..Len(s) : [s EXCEPT ![Len(s)] = e][i] = IF i = Len(s) THEN e ELSE s[i]
<1>1. CASE Len(s) > 0
    <2>1. Len(s) \in 1..Len(s)
        BY <1>1, LenProperties
    <2> QED
        BY <2>1, ExceptSeq
<1>2. CASE Len(s) = 0
    <2>1. s = <<>>
        BY <1>2, EmptySeq
    <2>2. [s EXCEPT ![Len(s)] = e] = s
        BY <1>2, <2>1
    <2>3. \A i : i \notin 1..Len(s)
        BY <1>2
    <2> QED
        BY <2>2, <2>3, Zenon
<1> QED
    BY <1>1, <1>2, LenProperties

(* A function on 1..n is a sequence.                                       *)
LEMMA FunctionIsSeq ==
    ASSUME NEW S, NEW n \in Nat, NEW f \in [1..n -> S]
    PROVE  f \in Seq(S) /\ Len(f) = n
<1>1. f \in Seq(S)
    BY SeqDef
<1> QED
    BY <1>1, LenProperties

(* strlen() of a string that has a NUL at n or before is at most n.        *)
LEMMA FirstNul ==
    ASSUME NEW b \in [0..BufSize -> Keys \union {NUL}], NEW n \in 0..BufSize, b[n] = NUL
    PROVE  /\ StrLen(b) \in 0..n /\ b[StrLen(b)] = NUL
           /\ \A i \in 0..(StrLen(b) - 1) : b[i] # NUL
<1> DEFINE Nuls == {i \in 0..BufSize : b[i] = NUL}
           IsFirst(m) == /\ m \in DOMAIN b => b[m] = NUL
                       /\ \A i \in 0..(m - 1) : b[i] # NUL
           Less == {ss \in Nat \X Nat : ss[1] < ss[2]}
<1>1. PICK m \in Nuls : \A i \in Nuls : ~ (<<i, m>> \in Less)
    <2>1. Nuls \subseteq Nat /\ Nuls # {}
        BY BoundsAssumption
    <2>2. IsWellFoundedOn(Less, Nat)
        BY NatLessThanWellFounded, Zenon DEF OpToRel
    <2> HIDE DEF Nuls, Less
    <2> QED
        BY <2>1, <2>2, WFMin
<1>2. \A i \in Nuls : ~ (i < m)
    <2> SUFFICES ASSUME NEW i \in Nuls, i < m PROVE FALSE
        OBVIOUS
    <2>1. i \in Nat /\ m \in Nat
        BY BoundsAssumption
    <2>2. <<i, m>> \in Less
        BY <2>1
    <2> HIDE DEF Less, Nuls
    <2> QED
        BY <1>1, <2>2
<1>3. m \in DOMAIN b \union {BufSize + 1} /\ IsFirst(m)
    BY <1>2, BoundsAssumption
<1>4. StrLen(b) \in DOMAIN b \union {BufSize + 1} /\ IsFirst(StrLen(b))
    BY <1>3 DEF StrLen
<1>5. StrLen(b) = m /\ m <= n
    BY <1>2, <1>3, <1>4, BoundsAssumption
<1> QED
    BY <1>4, <1>5, BoundsAssumption

-----------------------------------------------------------------------------
(* Lemmas about the actions' parts.                                        *)

(* A new job is a job, and harmless unless it is a read().                 *)
LEMMA NewJob ==
    ASSUME NEW what \in {"done", "tick", "signal", "wait", "read"}, NEW tf \in Nat
    PROVE  /\ Job(what, tf) \in Jobs
           /\ \A d, b : what # "read" /\ (what = "wait" => tf = d) => JobOK(Job(what, tf), d, b)
<1>1. <<>> \in Seq(Keys) /\ Len(<<>>) = 0
    BY EmptySeq
<1>2. Job(what, tf) \in Jobs
    BY <1>1 DEF Job, Jobs
<1>3. ASSUME NEW d, NEW b, what # "read", what = "wait" => tf = d
      PROVE  JobOK(Job(what, tf), d, b)
    BY <1>1, <1>3, BoundsAssumption DEF Job, JobOK, OwnFrame, InProgress, Fits, Gives, CutAtNul
<1> QED
    BY <1>2, <1>3

(* Depths are numbers, and the jobs are as many as the frames.             *)
LEMMA Depths ==
    ASSUME Types, NEW p \in Procs
    PROVE  /\ stack[p] \in Seq(Frames) /\ work[p] \in Seq(Jobs)
           /\ Depth(p) \in Nat /\ Len(work[p]) = Depth(p) /\ Depth(p) <= MaxDepth
           /\ \A d \in 1..Depth(p) : stack[p][d] \in Frames /\ work[p][d] \in Jobs
<1>1. stack[p] \in Seq(Frames) /\ work[p] \in Seq(Jobs) /\ Len(work[p]) = Len(stack[p])
    BY DEF Types, Depth
<1>2. Len(stack[p]) \in Nat
    BY <1>1, LenProperties
<1>3. \A d \in 1..Len(stack[p]) : stack[p][d] \in Frames /\ work[p][d] \in Jobs
    BY <1>1, ElementOfSeq
<1> QED
    BY <1>1, <1>2, <1>3 DEF Types, Depth

(* trap_entry keeps the invariant if the new frame and job are right.      *)
LEMMA EnterKeeps ==
    ASSUME IInv, NEW p \in Procs, NEW era \in Places, NEW arg \in Nat, NEW job \in Jobs,
           Enter(p, era, arg, job), JobOK(job, Depth(p) + 1, getstr_buf),
           getstr_buf' = getstr_buf, a0' \in [Procs -> Nat],
           loc' \in [Procs -> Places], cur' \in Procs \union {Idle, Lost},
           UNCHANGED <<ti, booted>>
    PROVE  IInv'
<1> DEFINE f == Frame(era, arg, ie)
<1>1. f \in Frames
    BY DEF IInv, Types, Frame, Frames
<1>2. /\ stack' = [stack EXCEPT ![p] = Append(stack[p], f)]
      /\ expect' = stack'
      /\ work' = [work EXCEPT ![p] = Append(work[p], job)]
      /\ Depth(p) < MaxDepth /\ ie' = 0
    BY DEF Enter, IInv, FramesIntact
<1>3. /\ stack[p] \in Seq(Frames) /\ work[p] \in Seq(Jobs)
      /\ Depth(p) \in Nat /\ Len(work[p]) = Depth(p) /\ Len(stack[p]) = Depth(p)
    BY Depths DEF IInv, Depth
<1> HIDE DEF f
<1>4. /\ Append(stack[p], f) \in Seq(Frames) /\ Len(Append(stack[p], f)) = Depth(p) + 1
      /\ Append(work[p], job) \in Seq(Jobs) /\ Len(Append(work[p], job)) = Depth(p) + 1
      /\ \A d \in 1..Depth(p) : Append(work[p], job)[d] = work[p][d]
      /\ Append(work[p], job)[Depth(p) + 1] = job
    <2>1. Append(stack[p], f) \in Seq(Frames) /\ Len(Append(stack[p], f)) = Len(stack[p]) + 1
        BY <1>1, <1>3, Pushed
    <2>2. /\ Append(work[p], job) \in Seq(Jobs) /\ Len(Append(work[p], job)) = Len(work[p]) + 1
          /\ \A d \in 1..Len(work[p]) : Append(work[p], job)[d] = work[p][d]
          /\ Append(work[p], job)[Len(work[p]) + 1] = job
        BY <1>3, Pushed
    <2> QED
        BY <1>3, <2>1, <2>2, Zenon
<1> DEFINE s == Append(stack[p], f)
           w == Append(work[p], job)
<1> HIDE DEF s, w
<1>5. /\ stack' \in [Procs -> Seq(Frames)] /\ work' \in [Procs -> Seq(Jobs)]
      /\ \A q \in Procs \ {p} : stack'[q] = stack[q] /\ work'[q] = work[q]
      /\ stack'[p] = s /\ work'[p] = w
    BY <1>2, <1>4 DEF IInv, Types, s, w
<1>6. \A q \in Procs : Len(work'[q]) = Len(stack'[q]) /\ Len(stack'[q]) <= MaxDepth
    <2> TAKE q \in Procs
    <2>1. CASE q = p
        <3>1. Depth(p) + 1 <= MaxDepth
            BY <1>2, <1>3, BoundsAssumption
        <3> QED
            BY <1>4, <1>5, <2>1, <3>1 DEF s, w
    <2>2. CASE q # p
        BY <1>5, <2>2 DEF IInv, Types, Depth
    <2> QED
        BY <2>1, <2>2
<1>7. Types'
    BY <1>2, <1>5, <1>6 DEF IInv, Types, Depth
<1>8. JobsOK'
    <2> SUFFICES ASSUME NEW q \in Procs, NEW d \in 1..Len(stack'[q])
                 PROVE  JobOK(work'[q][d], d, getstr_buf)
        BY ZenonT(40) DEF JobsOK, Depth, JobOK, OwnFrame, InProgress, Fits, Gives
    <2>1. CASE q # p
        BY <1>5, <2>1 DEF IInv, JobsOK, Depth
    <2>2. CASE q = p
        <3>1. d \in 1..Depth(p) \/ d = Depth(p) + 1
            BY <1>3, <1>4, <1>5, <2>2 DEF s
        <3> QED
            BY <1>4, <1>5, <2>2, <3>1 DEF IInv, JobsOK, s, w
    <2> QED
        BY <2>1, <2>2
<1> QED
    BY <1>2, <1>7, <1>8 DEF IInv, FramesIntact

(* One job replaced in a table of jobs, the innermost one of p.            *)
LEMMA JobReplaced ==
    ASSUME Types, NEW p \in Procs, Depth(p) > 0, NEW j \in Jobs,
           NEW jobs \in [Procs -> Seq(Jobs)], \A q \in Procs : Len(jobs[q]) = Depth(q),
           NEW new, new = [jobs EXCEPT ![p] = [@ EXCEPT ![Depth(p)] = j]]
    PROVE  /\ new \in [Procs -> Seq(Jobs)] /\ \A q \in Procs : Len(new[q]) = Depth(q)
           /\ new[p][Depth(p)] = j
           /\ \A q \in Procs : \A d \in 1..Depth(q) :
                 <<q, d>> # <<p, Depth(p)>> => new[q][d] = jobs[q][d]
<1>1. jobs[p] \in Seq(Jobs) /\ Len(jobs[p]) = Depth(p) /\ Depth(p) \in Nat
    BY Depths
<1> DEFINE t == [jobs[p] EXCEPT ![Len(jobs[p])] = j]
<1>2. /\ t \in Seq(Jobs) /\ Len(t) = Len(jobs[p])
      /\ \A i \in 1..Len(jobs[p]) : t[i] = IF i = Len(jobs[p]) THEN j ELSE jobs[p][i]
    BY <1>1, Replaced
<1>3. new = [jobs EXCEPT ![p] = t]
    BY <1>1
<1> HIDE DEF t
<1>4. new \in [Procs -> Seq(Jobs)] /\ new[p] = t /\ \A q \in Procs \ {p} : new[q] = jobs[q]
    BY <1>2, <1>3
<1>5. \A q \in Procs : Len(new[q]) = Depth(q)
    BY <1>1, <1>2, <1>4
<1>6. Depth(p) \in 1..Depth(p) /\ new[p][Depth(p)] = j
    BY <1>1, <1>2, <1>4
<1>7. ASSUME NEW q \in Procs, NEW d \in 1..Depth(q), <<q, d>> # <<p, Depth(p)>>
      PROVE  new[q][d] = jobs[q][d]
    BY <1>1, <1>2, <1>4, <1>7
<1> QED
    BY <1>4, <1>5, <1>6, <1>7

(* The frames when a result is stored through the call's own pointer.      *)
LEMMA ResultStored ==
    ASSUME Types, FramesIntact, NEW p \in Procs, Depth(p) > 0, Top(p).tf = Depth(p),
           NEW ret \in Nat, NEW jobs, NEW job, StoreResult(p, ret, jobs, job)
    PROVE  /\ expect' = stack' /\ stack' \in [Procs -> Seq(Frames)]
           /\ \A q \in Procs : Len(stack'[q]) = Depth(q)
<1> DEFINE d == Depth(p)
           e == [stack[p][d] EXCEPT !.a0 = ret]
           t == [stack[p] EXCEPT ![d] = e]
<1>1. /\ stack[p] \in Seq(Frames) /\ Len(stack[p]) = d /\ d \in 1..Len(stack[p])
      /\ stack[p][d] \in Frames
    BY Depths DEF Depth
<1>2. e \in Frames
    BY <1>1 DEF Frames
<1>3. ResultFrame(p)[1] = p /\ ResultFrame(p)[2] = d /\ d \in 1..Depth(p)
    BY <1>1 DEF ResultFrame, Depth
<1>4. /\ stack' = [stack EXCEPT ![p] = [@ EXCEPT ![d].a0 = ret]]
      /\ expect' = [stack EXCEPT ![p] = [@ EXCEPT ![d].a0 = ret]]
    BY <1>3 DEF StoreResult, FramesIntact
<1>5. stack' = [stack EXCEPT ![p] = t]
    BY <1>4
<1> HIDE DEF e
<1>6. t \in Seq(Frames) /\ Len(t) = Len(stack[p])
    BY <1>1, <1>2, ExceptSeq
<1> HIDE DEF t
<1>7. /\ stack' \in [Procs -> Seq(Frames)] /\ stack'[p] = t
      /\ \A q \in Procs \ {p} : stack'[q] = stack[q]
    BY <1>5, <1>6 DEF Types
<1> QED
    BY <1>4, <1>6, <1>7 DEF Depth

(* The table of jobs when p stores into getstr_buf: the others know.       *)
LEMMA OthersMixed ==
    ASSUME Types, NEW p \in Procs
    PROVE  /\ Mixed(p) \in [Procs -> Seq(Jobs)] /\ \A q \in Procs : Len(Mixed(p)[q]) = Depth(q)
           /\ \A q \in Procs : \A d \in 1..Depth(q) :
                Mixed(p)[q][d] = IF work[q][d].what = "read" /\ <<q, d>> # <<p, Depth(p)>>
                                 THEN [work[q][d] EXCEPT !.mixed = 1] ELSE work[q][d]
<1> DEFINE J(q, d) == IF work[q][d].what = "read" /\ <<q, d>> # <<p, Depth(p)>>
                      THEN [work[q][d] EXCEPT !.mixed = 1] ELSE work[q][d]
<1>1. ASSUME NEW q \in Procs, NEW d \in 1..Depth(q) PROVE J(q, d) \in Jobs
    <2>1. work[q][d] \in Jobs
        BY Depths
    <2> QED
        BY <2>1 DEF Jobs
<1>2. Mixed(p) = [q \in Procs |-> [d \in 1..Len(work[q]) |-> J(q, d)]]
    BY DEF Mixed
<1> HIDE DEF J
<1>3. ASSUME NEW q \in Procs
      PROVE  /\ Mixed(p)[q] \in Seq(Jobs) /\ Len(Mixed(p)[q]) = Depth(q)
             /\ \A d \in 1..Depth(q) : Mixed(p)[q][d] = J(q, d)
    <2>1. Len(work[q]) = Depth(q) /\ Depth(q) \in Nat
        BY Depths
    <2>2. Mixed(p)[q] = [d \in 1..Depth(q) |-> J(q, d)]
        BY <1>2, <2>1
    <2>3. Mixed(p)[q] \in [1..Depth(q) -> Jobs]
        BY <1>1, <2>2
    <2> HIDE DEF Mixed
    <2>4. Mixed(p)[q] \in Seq(Jobs) /\ Len(Mixed(p)[q]) = Depth(q)
        BY <2>1, <2>3, FunctionIsSeq
    <2> QED
        BY <2>2, <2>4
<1>4. Mixed(p) \in [Procs -> Seq(Jobs)]
    BY <1>2, <1>3
<1> QED
    BY <1>3, <1>4 DEF J

(* A job of another reader stays right, whatever getstr_buf becomes.       *)
LEMMA OthersRight ==
    ASSUME Types, JobsOK, NEW p \in Procs, NEW q \in Procs, NEW d \in 1..Depth(q),
           <<q, d>> # <<p, Depth(p)>>, NEW b
    PROVE  JobOK(Mixed(p)[q][d], d, b)
<1>1. work[q][d] \in Jobs /\ JobOK(work[q][d], d, getstr_buf)
    BY Depths DEF JobsOK
<1>2. Mixed(p)[q][d] = IF work[q][d].what = "read"
                       THEN [work[q][d] EXCEPT !.mixed = 1] ELSE work[q][d]
    BY OthersMixed
<1> QED
    BY <1>1, <1>2 DEF JobOK, OwnFrame, InProgress, Fits, Gives, Jobs

(* The invariant after a step that replaces p's innermost job by j and may *)
(* store into getstr_buf; the frames are as the hypotheses say.            *)
LEMMA JobStep ==
    ASSUME IInv, NEW p \in Procs, Depth(p) > 0, NEW j \in Jobs,
           work' = [Mixed(p) EXCEPT ![p] = [@ EXCEPT ![Depth(p)] = j]],
           getstr_buf' \in [0..BufSize -> Keys \union {NUL}],
           JobOK(j, Depth(p), getstr_buf'),
           expect' = stack', stack' \in [Procs -> Seq(Frames)],
           \A q \in Procs : Len(stack'[q]) = Depth(q),
           UNCHANGED machine
    PROVE  IInv'
<1>1. Types /\ JobsOK
    BY DEF IInv
<1>2. Mixed(p) \in [Procs -> Seq(Jobs)] /\ \A q \in Procs : Len(Mixed(p)[q]) = Depth(q)
    BY <1>1, OthersMixed
<1>3. /\ work' \in [Procs -> Seq(Jobs)] /\ \A q \in Procs : Len(work'[q]) = Depth(q)
      /\ work'[p][Depth(p)] = j
      /\ \A q \in Procs : \A d \in 1..Depth(q) :
            <<q, d>> # <<p, Depth(p)>> => work'[q][d] = Mixed(p)[q][d]
    <2> HIDE DEF Mixed
    <2> QED
        BY <1>1, <1>2, JobReplaced
<1>4. Types'
    BY <1>1, <1>3 DEF Types, Depth, machine
<1>5. ASSUME NEW q \in Procs, NEW d \in 1..Depth(q) PROVE JobOK(work'[q][d], d, getstr_buf')
    <2>1. CASE <<q, d>> = <<p, Depth(p)>>
        BY <1>3, <2>1
    <2>2. CASE <<q, d>> # <<p, Depth(p)>>
        <3>1. work'[q][d] = Mixed(p)[q][d]
            BY <1>3, <2>2
        <3>2. JobOK(Mixed(p)[q][d], d, getstr_buf')
            BY <1>1, <2>2, OthersRight
        <3> QED
            BY <3>1, <3>2
    <2> QED
        BY <2>1, <2>2
<1>6. JobsOK'
    <2>1. \A q \in Procs : \A d \in 1..Len(stack'[q]) : JobOK(work'[q][d], d, getstr_buf')
        BY <1>5
    <2> QED
        BY <2>1 DEF JobsOK, Depth, JobOK, OwnFrame, InProgress, Fits, Gives
<1> QED
    BY <1>4, <1>6 DEF IInv, FramesIntact

-----------------------------------------------------------------------------
(* The invariant holds initially and is kept by every action.              *)
LEMMA InitIInv == Init => IInv
<1> SUFFICES ASSUME Init PROVE IInv
    OBVIOUS
<1> DEFINE fs == <<Frame(0, 0, 1)>>
           js == <<Job("done", 1)>>
<1>1. Frame(0, 0, 1) \in Frames /\ Job("done", 1) \in Jobs
    BY NewJob DEF Frame, Frames, Places, User
<1>2. /\ stack[First] = fs /\ work[First] = js
      /\ \A p \in Procs \ {First} : stack[p] = <<>> /\ work[p] = <<>>
      /\ First \in Procs /\ expect = stack
    BY ProcsAssumption DEF Init
<1>3. /\ fs \in Seq(Frames) /\ Len(fs) = 1 /\ js \in Seq(Jobs) /\ Len(js) = 1
      /\ js[1] = Job("done", 1)
    <2> HIDE DEF Job, Frame
    <2> QED
        BY <1>1
<1> HIDE DEF fs, js
<1>4. <<>> \in Seq(Frames) /\ Len(<<>>) = 0 /\ <<>> \in Seq(Jobs)
    BY EmptySeq
<1>5. \A p \in Procs : /\ stack[p] \in Seq(Frames) /\ work[p] \in Seq(Jobs)
                        /\ Len(work[p]) = Len(stack[p]) /\ Len(stack[p]) <= MaxDepth
    <2>1. ASSUME NEW p \in {First}
          PROVE  /\ stack[p] \in Seq(Frames) /\ work[p] \in Seq(Jobs)
                 /\ Len(work[p]) = Len(stack[p]) /\ Len(stack[p]) <= MaxDepth
        <3>1. stack[p] = fs /\ work[p] = js
            BY <1>2, Zenon
        <3>2. 1 <= MaxDepth
            BY BoundsAssumption
        <3> QED
            BY <1>3, <3>1, <3>2, Zenon
    <2>2. ASSUME NEW p \in Procs \ {First}
          PROVE  /\ stack[p] \in Seq(Frames) /\ work[p] \in Seq(Jobs)
                 /\ Len(work[p]) = Len(stack[p]) /\ Len(stack[p]) <= MaxDepth
        <3>1. stack[p] = <<>> /\ work[p] = <<>>
            BY <1>2, Zenon
        <3>2. 0 <= MaxDepth
            BY BoundsAssumption
        <3> QED
            BY <1>4, <3>1, <3>2, Zenon
    <2> QED
        BY <2>1, <2>2
<1>6. Types
    <2>1. stack \in [Procs -> Seq(Frames)] /\ work \in [Procs -> Seq(Jobs)]
        BY <1>5 DEF Init
    <2> QED
        BY <1>2, <1>5, <2>1, BoundsAssumption DEF Init, Types, Depth, Places, Idle
<1>7. JobsOK
    <2> SUFFICES ASSUME NEW p \in Procs, NEW d \in 1..Len(stack[p])
                 PROVE  JobOK(work[p][d], d, getstr_buf)
        BY DEF JobsOK, Depth
    <2>1. p = First
        <3>1. CASE p # First
            BY <1>2, <1>4, <3>1
        <3> QED
            BY <3>1
    <2>2. work[p] = js /\ d = 1
        <3>1. work[p] = js /\ stack[p] = fs
            BY <1>2, <2>1, Zenon
        <3>2. d \in 1..1
            BY <1>3, <3>1, Zenon
        <3> QED
            BY <3>1, <3>2
    <2> QED
        BY <1>3, <2>2, NewJob
<1> QED
    BY <1>2, <1>6, <1>7 DEF IInv, FramesIntact

(* A step of the machine alone: what is on the stacks stays.               *)
LEMMA MachineStep ==
    ASSUME IInv, UNCHANGED <<stack, work, getstr_buf, expect>>,
           cur' \in Procs \union {Idle, Lost}, ie' \in {0, 1}, ti' \in {0, 1}, booted' \in {0, 1},
           loc' \in [Procs -> Places], a0' \in [Procs -> Nat]
    PROVE  IInv'
<1>1. Types'
    BY DEF IInv, Types, Depth
<1>2. JobsOK'
    <2>1. \A q \in Procs : \A d \in 1..Len(stack'[q]) : JobOK(work'[q][d], d, getstr_buf')
        BY DEF IInv, JobsOK, Depth
    <2> QED
        BY <2>1 DEF JobsOK, Depth, JobOK, OwnFrame, InProgress, Fits, Gives
<1> QED
    BY <1>1, <1>2 DEF IInv, FramesIntact

(* The values the registers may get.                                       *)
LEMMA RegistersTyped ==
    ASSUME Types, NEW p \in Procs
    PROVE  /\ \A l \in Places : [loc EXCEPT ![p] = l] \in [Procs -> Places]
           /\ \A n \in Nat : [a0 EXCEPT ![p] = n] \in [Procs -> Nat]
           /\ Kernel \in Places /\ Window \in Places /\ 100 \in Places /\ 0 \in Places
           /\ loc[p] \in Places /\ a0[p] \in Nat
           /\ loc[p] \in AtCall => loc[p] + 4 \in Places
           /\ loc[p] \in (User \union Handler) \ AtCall => loc[p] - 4 \in Places
BY DEF Types, Places, User, Handler, AtCall

LEMMA StepKeeps == ASSUME IInv, NEW p \in Procs, Step(p) PROVE IInv'
<1>1. Types
    BY DEF IInv
<1>2. loc[p] - 4 \in Places /\ 0 \in Places
    BY <1>1, RegistersTyped DEF Step, InCode
<1>3. loc' \in [Procs -> Places] /\ a0' \in [Procs -> Nat]
    <2>1. loc' = [loc EXCEPT ![p] = loc[p] - 4] /\ a0' = [a0 EXCEPT ![p] = 0]
        BY <1>1 DEF Step, Types
    <2> QED
        BY <1>1, <1>2, <2>1, RegistersTyped
<1> QED
    BY <1>1, <1>3, MachineStep DEF Step, Types

LEMMA ResumeKeeps ==
    ASSUME IInv, NEW p \in Procs, Resume(p) \/ TickInExit(p)
    PROVE  IInv'
BY MachineStep DEF Resume, TickInExit, IInv, Types

(* The timer, scheduler() interrupted, and nothing any more.               *)
LEMMA NobodyKeeps == ASSUME IInv, HardwareTick \/ TickIdle \/ TickInSwitch \/ Halted PROVE IInv'
BY MachineStep DEF HardwareTick, TickIdle, TickInSwitch, Halted, vars, machine, IInv, Types

LEMMA WindowKeeps ==
    ASSUME IInv, NEW p \in Procs, OpenWindow(p) \/ CloseWindow(p) \/ WaitYield(p)
    PROVE  IInv'
<1>1. Types
    BY DEF IInv
<1>2. Kernel \in Places /\ Window \in Places
    BY DEF Places
<1>3. /\ loc' \in [Procs -> Places] /\ a0' \in [Procs -> Nat]
      /\ cur' \in Procs \union {Idle, Lost} /\ ie' \in {0, 1}
    <2>1. \A l \in {Kernel, Window} : [loc EXCEPT ![p] = l] \in [Procs -> Places]
        BY <1>1, <1>2, RegistersTyped
    <2>2. CASE OpenWindow(p) \/ CloseWindow(p)
        BY <1>1, <2>1, <2>2 DEF OpenWindow, CloseWindow, Types
    <2>3. CASE WaitYield(p)
        BY <1>1, <2>1, <2>3, RegistersTyped DEF WaitYield, Yield, Types
    <2> QED
        BY <2>2, <2>3
<1> QED
    BY <1>1, <1>3, MachineStep DEF OpenWindow, CloseWindow, WaitYield, Types

(* The interrupts and wait4().                                             *)
LEMMA TickKeeps == ASSUME IInv, NEW p \in Procs, Tick(p) \/ TickSignal(p) PROVE IInv'
<1>1. Types /\ Depth(p) \in Nat
    BY Depths DEF IInv
<1>2. PICK job : /\ Enter(p, loc[p], a0[p], job) /\ job \in {Job("tick", 0), Job("signal", 0)}
         /\ UNCHANGED <<ti, booted>>
    BY DEF Tick, TickSignal
<1>3. job \in Jobs /\ JobOK(job, Depth(p) + 1, getstr_buf)
    BY <1>2, NewJob
<1>4. loc' \in [Procs -> Places] /\ cur' \in Procs \union {Idle, Lost}
    <2>1. \A l \in {Kernel, 100} : [loc EXCEPT ![p] = l] \in [Procs -> Places]
        BY <1>1, RegistersTyped
    <2> QED
        BY <1>1, <2>1 DEF Tick, TickSignal, Yield, Types
<1>5. loc[p] \in Places /\ a0[p] \in Nat /\ getstr_buf' = getstr_buf /\ a0' \in [Procs -> Nat]
    <2>1. [a0 EXCEPT ![p] = 0] \in [Procs -> Nat]
        BY <1>1, RegistersTyped
    <2> QED
        BY <1>1, <2>1, RegistersTyped DEF Tick, TickSignal, Yield
<1> HIDE DEF JobOK, Enter
<1> QED
    BY <1>2, <1>3, <1>4, <1>5, EnterKeeps

LEMMA SyscallWaitKeeps == ASSUME IInv, NEW p \in Procs, SyscallWait(p) PROVE IInv'
<1>1. Types /\ Depth(p) \in Nat /\ Depth(p) + 1 \in Nat
    BY Depths DEF IInv
<1>2. Enter(p, loc[p] + 4, 0, Job("wait", Depth(p) + 1))
    BY DEF SyscallWait, Call
<1>3. /\ Job("wait", Depth(p) + 1) \in Jobs
      /\ JobOK(Job("wait", Depth(p) + 1), Depth(p) + 1, getstr_buf)
    BY <1>1, NewJob
<1>4. loc' \in [Procs -> Places] /\ cur' \in Procs \union {Idle, Lost}
    BY <1>1, RegistersTyped DEF SyscallWait, Call, Types
<1>5. /\ loc[p] + 4 \in Places /\ 0 \in Nat /\ a0' \in [Procs -> Nat]
      /\ UNCHANGED <<getstr_buf, ti, booted>>
    BY <1>1, RegistersTyped DEF SyscallWait, Call, Types
<1> QED
    BY <1>2, <1>3, <1>4, <1>5, EnterKeeps

(* A read() begins with its own frame's argument: argraw reads the frame   *)
(* that trap_entry has just pushed.                                        *)
LEMMA SyscallReadKeeps == ASSUME IInv, NEW p \in Procs, SyscallRead(p) PROVE IInv'
<1>1. Types /\ Depth(p) \in Nat /\ Depth(p) + 1 \in Nat /\ stack[p] \in Seq(Frames)
    BY Depths DEF IInv
<1> DEFINE J(n, c) == [Job("read", Depth(p) + 1) EXCEPT !.asked = n, !.count = c]
<1>2. PICK n \in Counts : /\ Running(p) /\ loc[p] \in AtCall
                          /\ Enter(p, loc[p] + 4, n, J(n, Capped(argraw)))
                          /\ loc' = [loc EXCEPT ![p] = Kernel]
                          /\ UNCHANGED <<cur, ti, a0, getstr_buf, booted>>
    BY DEF SyscallRead, Call
<1>3. n \in Nat /\ loc[p] + 4 \in Places
    BY <1>1, <1>2, BoundsAssumption, RegistersTyped
<1>4. argraw = n
    <2> DEFINE f == Frame(loc[p] + 4, n, ie)
    <2>1. f \in Frames /\ f.a0 = n
        BY <1>1, <1>3 DEF Frame, Frames, Types
    <2>2. /\ stack' = [stack EXCEPT ![p] = Append(stack[p], f)]
          /\ cur_sp' = <<p, Depth(p) + 1>>
        BY <1>2 DEF Enter
    <2> HIDE DEF f
    <2>3. stack'[p] = Append(stack[p], f)
        BY <1>1, <2>2 DEF Types
    <2>4. Append(stack[p], f)[Depth(p) + 1] = f
        BY <1>1, <2>1, Pushed DEF Depth
    <2>5. cur_sp'[1] = p /\ cur_sp'[2] = Depth(p) + 1
        BY <2>2
    <2> QED
        BY <2>1, <2>3, <2>4, <2>5, Zenon DEF argraw
<1>5. Capped(n) \in Nat /\ Capped(n) <= n /\ Capped(n) <= BufSize
    BY <1>3, BoundsAssumption DEF Capped
<1>6. J(n, Capped(n)) \in Jobs
    BY <1>1, <1>3, <1>5, EmptySeq DEF Job, Jobs
<1>7. JobOK(J(n, Capped(n)), Depth(p) + 1, getstr_buf)
    <2> HIDE DEF Capped
    <2> QED
        BY <1>1, <1>3, <1>5, EmptySeq DEF Job, JobOK, OwnFrame, InProgress, Fits, Gives
<1>8. loc' \in [Procs -> Places] /\ a0' \in [Procs -> Nat] /\ cur' \in Procs \union {Idle, Lost}
    BY <1>1, <1>2, RegistersTyped DEF Types
<1>9. Enter(p, loc[p] + 4, n, J(n, Capped(n)))
    BY <1>2, <1>4
<1> HIDE DEF J
<1> QED
    BY <1>2, <1>3, <1>6, <1>7, <1>8, <1>9, EnterKeeps

(* trap_exit.                                                              *)
LEMMA ExitKeeps == ASSUME IInv, NEW p \in Procs, Exit(p) PROVE IInv'
<1>1. /\ Types /\ Depth(p) \in Nat /\ Depth(p) > 0 /\ Len(stack[p]) = Depth(p)
      /\ stack[p] \in Seq(Frames) /\ work[p] \in Seq(Jobs) /\ Len(work[p]) = Depth(p)
      /\ stack[p][Depth(p)] \in Frames
    BY Depths DEF IInv, Exit, Doing, Depth
<1>2. /\ stack' = [stack EXCEPT ![p] = Front(stack[p])] /\ expect' = stack'
      /\ work' = [work EXCEPT ![p] = Front(work[p])]
      /\ getstr_buf' = getstr_buf /\ cur' = cur /\ ti' = ti
    BY DEF Exit, IInv, FramesIntact
<1>3. /\ Front(stack[p]) \in Seq(Frames) /\ Len(Front(stack[p])) = Depth(p) - 1
      /\ Front(work[p]) \in Seq(Jobs) /\ Len(Front(work[p])) = Depth(p) - 1
      /\ \A d \in 1..(Depth(p) - 1) : Front(work[p])[d] = work[p][d]
    <2>1. Front(stack[p]) \in Seq(Frames) /\ Len(Front(stack[p])) = Len(stack[p]) - 1
        BY <1>1, Popped
    <2>2. /\ Front(work[p]) \in Seq(Jobs) /\ Len(Front(work[p])) = Len(work[p]) - 1
          /\ \A d \in 1..(Len(work[p]) - 1) : Front(work[p])[d] = work[p][d]
        BY <1>1, Popped
    <2> QED
        BY <1>1, <2>1, <2>2, Zenon
<1> DEFINE s == Front(stack[p])
           w == Front(work[p])
<1> HIDE DEF s, w
<1>4. /\ stack' \in [Procs -> Seq(Frames)] /\ work' \in [Procs -> Seq(Jobs)]
      /\ \A q \in Procs \ {p} : stack'[q] = stack[q] /\ work'[q] = work[q]
      /\ stack'[p] = s /\ work'[p] = w
    BY <1>1, <1>2, <1>3 DEF Types, s, w
<1>5. \A q \in Procs : Len(work'[q]) = Len(stack'[q]) /\ Len(stack'[q]) <= MaxDepth
    <2> TAKE q \in Procs
    <2>1. CASE q = p
        <3>1. Depth(p) <= MaxDepth
            BY <1>1 DEF Types
        <3>2. Depth(p) - 1 <= MaxDepth
            BY <1>1, <3>1, BoundsAssumption
        <3> QED
            BY <1>3, <1>4, <2>1, <3>2, Zenon DEF s, w
    <2>2. CASE q # p
        BY <1>1, <1>4, <2>2 DEF Types, Depth
    <2> QED
        BY <2>1, <2>2
<1>6. /\ ie' \in {0, 1} /\ loc' \in [Procs -> Places] /\ a0' \in [Procs -> Nat]
      /\ booted' \in {0, 1}
    BY <1>1 DEF Exit, ExitFrame, Types, Frames
<1>7. Types'
    BY <1>1, <1>2, <1>4, <1>5, <1>6 DEF Types, Depth
<1>8. JobsOK'
    <2> SUFFICES ASSUME NEW q \in Procs, NEW d \in 1..Len(stack'[q])
                 PROVE  JobOK(work'[q][d], d, getstr_buf)
        BY <1>2 DEF JobsOK, Depth, JobOK, OwnFrame, InProgress, Fits, Gives
    <2>1. CASE q # p
        BY <1>4, <2>1 DEF IInv, JobsOK, Depth
    <2>2. CASE q = p
        <3>1. d \in 1..(Depth(p) - 1)
            BY <1>3, <1>4, <2>2, Zenon DEF s
        <3>2. d \in 1..Depth(p)
            BY <1>1, <3>1
        <3>3. work'[q][d] = work[p][d]
            BY <1>3, <1>4, <2>2, <3>1, Zenon DEF w
        <3> QED
            BY <3>2, <3>3 DEF IInv, JobsOK
    <2> QED
        BY <2>1, <2>2
<1> QED
    BY <1>2, <1>7, <1>8 DEF IInv, FramesIntact

(* timer_handler() after the signal handler, and after its yield().        *)
LEMMA HandlerReturnsKeeps ==
    ASSUME IInv, NEW p \in Procs, HandlerReturns(p) \/ TickDone(p)
    PROVE  IInv'
<1> DEFINE j == IF HandlerReturns(p) THEN Job("tick", 0) ELSE Job("done", 0)
           t == [work[p] EXCEPT ![Len(work[p])] = j]
<1>1. Types /\ work[p] \in Seq(Jobs) /\ Len(work[p]) = Depth(p) /\ Depth(p) \in Nat
    BY Depths DEF IInv
<1>2. j \in Jobs /\ \A d, b : JobOK(j, d, b)
    BY NewJob
<1>3. /\ work' = [work EXCEPT ![p] = t] /\ ti' \in {0, 1}
      /\ UNCHANGED <<ie, stack, getstr_buf, expect, booted>>
    <2>1. work' = SetTop(p, j) /\ ti' \in {0, 1} /\ UNCHANGED <<ie, stack, getstr_buf, expect, booted>>
        BY <1>1 DEF HandlerReturns, TickDone, Types
    <2> HIDE DEF j
    <2> QED
        BY <1>1, <2>1 DEF SetTop
<1> HIDE DEF j
<1>4. /\ t \in Seq(Jobs) /\ Len(t) = Len(work[p])
      /\ \A i \in 1..Len(work[p]) : t[i] = IF i = Len(work[p]) THEN j ELSE work[p][i]
    BY <1>1, <1>2, Replaced
<1> HIDE DEF t
<1>5. work' \in [Procs -> Seq(Jobs)] /\ work'[p] = t /\ \A q \in Procs \ {p} : work'[q] = work[q]
    BY <1>1, <1>3, <1>4 DEF Types
<1>6. \A q \in Procs : Len(work'[q]) = Len(stack[q]) /\ Len(stack[q]) <= MaxDepth
    BY <1>1, <1>4, <1>5 DEF Types, Depth
<1>7. loc' \in [Procs -> Places] /\ a0' \in [Procs -> Nat] /\ cur' \in Procs \union {Idle, Lost}
    <2>1. [loc EXCEPT ![p] = Kernel] \in [Procs -> Places] /\ [a0 EXCEPT ![p] = 0] \in [Procs -> Nat]
        BY <1>1, RegistersTyped
    <2> QED
        BY <1>1, <2>1 DEF HandlerReturns, TickDone, Yield, Types
<1>8. Types'
    BY <1>1, <1>3, <1>5, <1>6, <1>7 DEF Types, Depth
<1>9. JobsOK'
    <2> SUFFICES ASSUME NEW q \in Procs, NEW d \in 1..Len(stack[q])
                 PROVE  JobOK(work'[q][d], d, getstr_buf)
        BY <1>3 DEF JobsOK, Depth, JobOK, OwnFrame, InProgress, Fits, Gives
    <2>1. JobOK(work[q][d], d, getstr_buf)
        BY DEF IInv, JobsOK, Depth
    <2>2. CASE q # p
        BY <1>5, <2>1, <2>2
    <2>3. CASE q = p
        <3>1. d \in 1..Len(work[p])
            BY <1>1, <2>3 DEF Depth
        <3> QED
            BY <1>2, <1>4, <1>5, <2>1, <2>3, <3>1
    <2> QED
        BY <2>2, <2>3
<1> QED
    BY <1>3, <1>8, <1>9 DEF IInv, FramesIntact

(* The end of wait4(): the result is in the call's own frame.              *)
LEMMA WaitDoneKeeps == ASSUME IInv, NEW p \in Procs, WaitDone(p) PROVE IInv'
<1> DEFINE j == [Top(p) EXCEPT !.what = "done"]
<1>1. /\ Types /\ FramesIntact /\ Depth(p) \in Nat /\ Depth(p) > 0 /\ Depth(p) \in 1..Depth(p)
      /\ Top(p) \in Jobs /\ Top(p).what = "wait"
    BY Depths DEF IInv, WaitDone, Doing, Top
<1>2. JobOK(Top(p), Depth(p), getstr_buf)
    BY <1>1 DEF IInv, JobsOK, Top
<1>3. StoreResult(p, 1, work, Top(p)) /\ UNCHANGED <<machine, cur_sp, getstr_buf>>
    BY DEF WaitDone
<1> HIDE DEF Top
<1>4. j \in Jobs /\ JobOK(j, Depth(p), getstr_buf) /\ Top(p).tf = Depth(p)
    BY <1>1, <1>2 DEF Jobs, JobOK, OwnFrame, InProgress, Fits, Gives
<1>5. /\ expect' = stack' /\ stack' \in [Procs -> Seq(Frames)]
      /\ \A q \in Procs : Len(stack'[q]) = Depth(q)
    BY <1>1, <1>3, <1>4, ResultStored
<1>6. work' = [work EXCEPT ![p] = [@ EXCEPT ![Depth(p)] = j]]
    BY <1>3 DEF StoreResult
<1> HIDE DEF j
<1>7. /\ work' \in [Procs -> Seq(Jobs)] /\ \A q \in Procs : Len(work'[q]) = Depth(q)
      /\ work'[p][Depth(p)] = j
      /\ \A q \in Procs : \A d \in 1..Depth(q) :
            <<q, d>> # <<p, Depth(p)>> => work'[q][d] = work[q][d]
    <2>1. work \in [Procs -> Seq(Jobs)] /\ \A q \in Procs : Len(work[q]) = Depth(q)
        BY <1>1 DEF Types
    <2> QED
        BY <1>1, <1>4, <1>6, <2>1, JobReplaced
<1>8. Types'
    BY <1>1, <1>3, <1>5, <1>7 DEF Types, Depth, machine
<1>9. JobsOK'
    <2>1. ASSUME NEW q \in Procs, NEW d \in 1..Depth(q) PROVE JobOK(work'[q][d], d, getstr_buf)
        <3>1. CASE <<q, d>> = <<p, Depth(p)>>
            BY <1>4, <1>7, <3>1
        <3>2. CASE <<q, d>> # <<p, Depth(p)>>
            BY <1>7, <3>2 DEF IInv, JobsOK
        <3> QED
            BY <3>1, <3>2
    <2>2. \A q \in Procs : \A d \in 1..Len(stack'[q]) : JobOK(work'[q][d], d, getstr_buf')
        BY <1>3, <1>5, <2>1
    <2> QED
        BY <2>2 DEF JobsOK, Depth, JobOK, OwnFrame, InProgress, Fits, Gives
<1> QED
    BY <1>5, <1>8, <1>9 DEF IInv, FramesIntact

(* getstr() stores a character after the ones it has.                      *)
LEMMA GetKeyKeeps == ASSUME IInv, NEW p \in Procs, GetKey(p) PROVE IInv'
<1>1. /\ Types /\ FramesIntact /\ JobsOK /\ Depth(p) \in Nat /\ Depth(p) > 0
      /\ Depth(p) \in 1..Depth(p) /\ Top(p) \in Jobs /\ Top(p).what = "read" /\ Top(p).count > 0
    BY Depths DEF IInv, GetKey, Doing, Top
<1>2. JobOK(Top(p), Depth(p), getstr_buf)
    BY <1>1 DEF JobsOK, Top
<1>3. PICK c \in Keys :
        /\ getstr_buf' = [getstr_buf EXCEPT ![Top(p).pos] = c]
        /\ work' = [Mixed(p) EXCEPT ![p] = [@ EXCEPT ![Depth(p)] = Taken(Top(p), c)]]
    BY Zenon DEF GetKey
<1>4. UNCHANGED <<machine, stack, cur_sp, expect>>
    BY DEF GetKey
<1> DEFINE top == Top(p)
           j == Taken(top, c)
<1> HIDE DEF top
<1>5. /\ top \in Jobs /\ top.what = "read" /\ top.count > 0 /\ JobOK(top, Depth(p), getstr_buf)
      /\ j = [top EXCEPT !.pos = top.pos + 1, !.mine = Append(top.mine, c),
                         !.count = IF c = NL THEN 0 ELSE top.count - 1]
      /\ getstr_buf' = [getstr_buf EXCEPT ![top.pos] = c]
    BY <1>1, <1>2, <1>3 DEF top, Taken
<1>6. /\ top.mine \in Seq(Keys) /\ Len(top.mine) = top.pos
      /\ top.pos \in 0..BufSize /\ top.pos + top.count <= BufSize
      /\ top.pos \in Nat /\ top.count \in Nat /\ top.asked \in Nat
      /\ top.pos + top.count <= top.asked
      /\ top.mixed = 0 => \A i \in 1..top.pos : getstr_buf[i - 1] = top.mine[i]
    BY <1>5, BoundsAssumption DEF JobOK, InProgress, Fits, Jobs
<1> DEFINE m == Append(top.mine, c)
<1>7. /\ m \in Seq(Keys) /\ Len(m) = top.pos + 1 /\ m[top.pos + 1] = c
      /\ \A i \in 1..top.pos : m[i] = top.mine[i]
    <2>1. /\ m \in Seq(Keys) /\ Len(m) = Len(top.mine) + 1 /\ m[Len(top.mine) + 1] = c
          /\ \A i \in 1..Len(top.mine) : m[i] = top.mine[i]
        BY <1>6, Pushed
    <2> QED
        BY <1>6, <2>1, Zenon
<1> HIDE DEF m
<1> DEFINE k == IF c = NL THEN 0 ELSE top.count - 1
<1>8. k \in Nat /\ top.pos + 1 + k <= BufSize /\ top.pos + 1 + k <= top.asked
    <2>1. \A x, y, z, l \in Nat : /\ y > 0 /\ x + y <= z /\ x + y <= l
                => /\ y - 1 \in Nat /\ x + 1 + (y - 1) <= z /\ x + 1 + (y - 1) <= l
                   /\ x + 1 + 0 <= z /\ x + 1 + 0 <= l
        OBVIOUS
    <2>2. top.count > 0 /\ BufSize \in Nat /\ 0 \in Nat
        BY <1>5, BoundsAssumption
    <2> QED
        BY <1>6, <2>1, <2>2, Zenon
<1>9. j = [top EXCEPT !.pos = top.pos + 1, !.mine = m, !.count = k]
    BY <1>5 DEF m
<1> HIDE DEF k, j
<1>10. j \in Jobs
    <2>1. top \in Jobs /\ top.pos + 1 \in Nat /\ m \in Seq(Keys) /\ k \in Nat
        BY <1>5, <1>6, <1>7, <1>8
    <2> QED
        BY <1>9, <2>1 DEF Jobs
<1>11. getstr_buf' \in [0..BufSize -> Keys \union {NUL}]
    BY <1>1, <1>5, <1>6 DEF Types
<1>12. ASSUME top.mixed = 0, NEW i \in 1..(top.pos + 1) PROVE getstr_buf'[i - 1] = m[i]
    <2>1. CASE i = top.pos + 1
        <3>1. i - 1 = top.pos
            BY <1>6, <2>1
        <3>2. getstr_buf'[top.pos] = c
            BY <1>1, <1>5, <1>6 DEF Types
        <3> QED
            BY <1>7, <2>1, <3>1, <3>2
    <2>2. CASE i # top.pos + 1
        <3>1. i \in 1..top.pos /\ i - 1 # top.pos /\ i - 1 \in 0..BufSize
            BY <1>6, <2>2, BoundsAssumption
        <3>2. getstr_buf'[i - 1] = getstr_buf[i - 1]
            BY <1>1, <1>5, <3>1 DEF Types
        <3> QED
            BY <1>6, <1>7, <1>12, <3>1, <3>2
    <2> QED
        BY <2>1, <2>2
<1>13. JobOK(j, Depth(p), getstr_buf')
    <2>1. /\ j.what = "read" /\ j.tf = top.tf /\ j.pos = top.pos + 1 /\ j.count = k
          /\ j.mine = m /\ j.given = top.given /\ j.asked = top.asked /\ j.mixed = top.mixed
        BY <1>5, <1>9 DEF Jobs
    <2>2. OwnFrame(j, Depth(p)) /\ Fits(j) /\ Gives(j)
        BY <1>5, <1>8, <2>1 DEF JobOK, OwnFrame, Fits, Gives
    <2>3. top.given = <<>>
        BY <1>5 DEF JobOK, InProgress
    <2>4. InProgress(j, getstr_buf')
        BY <1>7, <1>8, <1>12, <2>1, <2>3 DEF InProgress
    <2> QED
        BY <2>2, <2>4 DEF JobOK
<1>14. work' = [Mixed(p) EXCEPT ![p] = [@ EXCEPT ![Depth(p)] = j]]
    BY <1>3 DEF j, top
<1>15. /\ expect' = stack' /\ stack' \in [Procs -> Seq(Frames)]
       /\ \A q \in Procs : Len(stack'[q]) = Depth(q)
    BY <1>1, <1>4 DEF FramesIntact, Types, Depth
<1> HIDE DEF Mixed
<1> QED
    BY <1>1, <1>4, <1>10, <1>11, <1>13, <1>14, <1>15, JobStep

(* The end of read(): strlen() stops at the NUL getstr() has stored, or    *)
(* before it at one that was typed or that another reader has stored; what *)
(* is copied is what was taken up to there, if nobody else stored.         *)
LEMMA ReadDoneKeeps == ASSUME IInv, NEW p \in Procs, ReadDone(p) PROVE IInv'
<1>1. /\ Types /\ FramesIntact /\ JobsOK /\ Depth(p) \in Nat /\ Depth(p) > 0
      /\ Depth(p) \in 1..Depth(p) /\ Top(p) \in Jobs /\ Top(p).what = "read"
    BY Depths DEF IInv, ReadDone, Doing, Top
<1>2. JobOK(Top(p), Depth(p), getstr_buf)
    BY <1>1 DEF JobsOK, Top
<1> DEFINE top == Top(p)
           b == Terminated(p)
           n == StrLen(b)
           g == [i \in 1..n |-> b[i - 1]]
           j == [[top EXCEPT !.given = g] EXCEPT !.what = "done"]
<1>3. /\ getstr_buf' = b /\ StoreResult(p, n, Mixed(p), [top EXCEPT !.given = g])
      /\ UNCHANGED <<machine, cur_sp>>
    BY DEF ReadDone
<1>4. b = [getstr_buf EXCEPT ![top.pos] = NUL]
    BY DEF Terminated
<1>5. work' = [Mixed(p) EXCEPT ![p] = [@ EXCEPT ![Depth(p)] = j]]
    BY <1>3 DEF StoreResult
<1>6. top \in Jobs /\ top.what = "read" /\ JobOK(top, Depth(p), getstr_buf) /\ Top(p).tf = Depth(p)
    BY <1>1, <1>2 DEF JobOK, OwnFrame
<1> HIDE DEF top, b, n, g
<1>7. /\ top.mine \in Seq(Keys) /\ Len(top.mine) = top.pos
      /\ top.pos \in 0..BufSize /\ top.pos \in Nat /\ top.asked \in Nat /\ top.pos <= top.asked
      /\ top.mixed = 0 => \A i \in 1..top.pos : getstr_buf[i - 1] = top.mine[i]
    BY <1>6, BoundsAssumption DEF JobOK, InProgress, Fits, Jobs
<1>8. /\ b \in [0..BufSize -> Keys \union {NUL}] /\ b[top.pos] = NUL
      /\ \A i \in 0..BufSize : i # top.pos => b[i] = getstr_buf[i]
    BY <1>1, <1>4, <1>7 DEF Types
<1>9. n \in 0..top.pos /\ n \in Nat /\ b[n] = NUL /\ \A i \in 0..(n - 1) : b[i] # NUL
    <2>1. /\ StrLen(b) \in 0..top.pos /\ b[StrLen(b)] = NUL
          /\ \A i \in 0..(StrLen(b) - 1) : b[i] # NUL
        BY <1>7, <1>8, FirstNul
    <2> QED
        BY <2>1 DEF n
<1>10. g \in Seq(Keys) /\ Len(g) = n /\ \A i \in 1..n : g[i] = b[i - 1]
    <2>1. ASSUME NEW i \in 1..n PROVE b[i - 1] \in Keys
        <3>1. i - 1 \in 0..(n - 1) /\ i - 1 \in 0..BufSize
            BY <1>7, <1>9, BoundsAssumption
        <3> QED
            BY <1>8, <1>9, <3>1
    <2>2. g \in [1..n -> Keys] /\ \A i \in 1..n : g[i] = b[i - 1]
        BY <2>1 DEF g
    <2> QED
        BY <1>9, <2>2, FunctionIsSeq
<1>11. ASSUME top.mixed = 0 PROVE CutAtNul(g, top.mine)
    <2>1. ASSUME NEW i \in 1..top.pos PROVE b[i - 1] = top.mine[i]
        <3>1. i - 1 \in 0..BufSize /\ i - 1 # top.pos
            BY <1>7, BoundsAssumption
        <3> QED
            BY <1>7, <1>8, <1>11, <3>1
    <2>2. ASSUME NEW i \in 1..n PROVE g[i] = top.mine[i] /\ g[i] # NUL
        <3>1. i \in 1..top.pos /\ i - 1 \in 0..(n - 1)
            BY <1>7, <1>9
        <3> QED
            BY <1>9, <1>10, <2>1, <3>1
    <2>3. ASSUME n < top.pos PROVE top.mine[n + 1] = NUL
        <3>1. n + 1 \in 1..top.pos /\ (n + 1) - 1 = n
            BY <1>7, <1>9, <2>3
        <3> QED
            BY <1>9, <2>1, <3>1
    <2>4. n <= top.pos
        BY <1>7, <1>9
    <2> QED
        BY <1>7, <1>10, <2>2, <2>3, <2>4 DEF CutAtNul
<1>12. j \in Jobs
    BY <1>6, <1>10 DEF Jobs
<1>13. JobOK(j, Depth(p), getstr_buf')
    <2>1. /\ j.what = "done" /\ j.pos = top.pos /\ j.count = top.count /\ j.mine = top.mine
          /\ j.given = g /\ j.asked = top.asked /\ j.mixed = top.mixed
        BY <1>6 DEF Jobs
    <2>2. Len(g) <= top.asked
        BY <1>7, <1>9, <1>10
    <2> HIDE DEF j
    <2> QED
        BY <1>6, <1>11, <2>1, <2>2 DEF JobOK, OwnFrame, InProgress, Fits, Gives
<1>14. /\ expect' = stack' /\ stack' \in [Procs -> Seq(Frames)]
       /\ \A q \in Procs : Len(stack'[q]) = Depth(q)
    BY <1>1, <1>3, <1>6, <1>9, ResultStored
<1> HIDE DEF Mixed, j
<1> QED
    BY <1>1, <1>3, <1>5, <1>8, <1>12, <1>13, <1>14, JobStep

(* fork(): the child's copy of the stack is as right as the parent's, and  *)
(* the reads in progress further out are copied with it.                   *)
LEMMA ForkKeeps == ASSUME IInv, NEW p \in Procs, NEW np \in Procs, Fork(p, np) PROVE IInv'
<1>1. /\ Types /\ Depth(p) \in Nat /\ Depth(p) + 1 \in Nat /\ Len(stack[p]) = Depth(p)
      /\ stack[p] \in Seq(Frames) /\ work[p] \in Seq(Jobs) /\ Len(work[p]) = Depth(p)
    BY Depths DEF IInv, Depth
<1> DEFINE d0 == Depth(p) + 1
           fc == Frame(loc[p] + 4, 0, ie)
           fm == Frame(loc[p] + 4, 1, ie)
           jn == Job("done", d0)
           copy == Append(stack[p], fc)
           mine == Append(stack[p], fm)
           w == Append(work[p], jn)
<1>2. fc \in Frames /\ fm \in Frames /\ jn \in Jobs /\ \A b : JobOK(jn, d0, b)
    <2>1. loc[p] + 4 \in Places /\ ie \in {0, 1}
        BY <1>1, RegistersTyped DEF Fork, Types
    <2>2. fc \in Frames /\ fm \in Frames
        BY <2>1 DEF Frame, Frames
    <2> QED
        BY <1>1, <2>2, NewJob
<1>3. /\ np # p /\ Depth(p) < MaxDepth /\ ie' = 0 /\ loc' = [loc EXCEPT ![p] = Kernel]
      /\ UNCHANGED <<cur, ti, a0, getstr_buf, booted>>
      /\ stack' = [stack EXCEPT ![p] = mine, ![np] = copy]
      /\ expect' = [stack EXCEPT ![p] = Append(stack[p], mine[d0]),
                                 ![np] = Append(stack[p], copy[d0])]
      /\ work' = [work EXCEPT ![p] = w, ![np] = w]
    BY DEF Fork, IInv, FramesIntact
<1> HIDE DEF fc, fm, jn
<1>4. /\ copy \in Seq(Frames) /\ Len(copy) = d0 /\ copy[d0] = fc
      /\ mine \in Seq(Frames) /\ Len(mine) = d0 /\ mine[d0] = fm
    <2>1. /\ copy \in Seq(Frames) /\ Len(copy) = Len(stack[p]) + 1 /\ copy[Len(stack[p]) + 1] = fc
          /\ mine \in Seq(Frames) /\ Len(mine) = Len(stack[p]) + 1 /\ mine[Len(stack[p]) + 1] = fm
        BY <1>1, <1>2, Pushed
    <2> QED
        BY <1>1, <2>1, Zenon
<1>5. /\ w \in Seq(Jobs) /\ Len(w) = d0 /\ w[d0] = jn
      /\ \A d \in 1..Depth(p) : w[d] = work[p][d]
    <2>1. /\ w \in Seq(Jobs) /\ Len(w) = Len(work[p]) + 1 /\ w[Len(work[p]) + 1] = jn
          /\ \A d \in 1..Len(work[p]) : w[d] = work[p][d]
        BY <1>1, <1>2, Pushed
    <2> QED
        BY <1>1, <2>1, Zenon
<1>6. expect' = stack'
    BY <1>3, <1>4, Zenon
<1> HIDE DEF copy, mine, w
<1>7. /\ stack' \in [Procs -> Seq(Frames)] /\ work' \in [Procs -> Seq(Jobs)]
      /\ \A q \in Procs \ {p, np} : stack'[q] = stack[q] /\ work'[q] = work[q]
      /\ \A q \in {p, np} : Len(stack'[q]) = d0 /\ work'[q] = w
    <2>1. \A q \in Procs : /\ stack'[q] = IF q = np THEN copy ELSE IF q = p THEN mine ELSE stack[q]
                           /\ work'[q] = IF q \in {p, np} THEN w ELSE work[q]
        BY <1>1, <1>3 DEF Types
    <2>2. DOMAIN stack' = Procs /\ DOMAIN work' = Procs
        BY <1>1, <1>3 DEF Types
    <2>3. stack' \in [Procs -> Seq(Frames)] /\ work' \in [Procs -> Seq(Jobs)]
        BY <1>1, <1>3, <1>4, <1>5 DEF Types
    <2> HIDE DEF d0
    <2> QED
        BY <1>3, <1>4, <2>1, <2>3
<1>8. \A q \in Procs : Len(work'[q]) = Len(stack'[q]) /\ Len(stack'[q]) <= MaxDepth
    <2> TAKE q \in Procs
    <2>1. CASE q \in {p, np}
        <3>1. d0 <= MaxDepth
            BY <1>1, <1>3, BoundsAssumption
        <3> HIDE DEF d0
        <3> QED
            BY <1>5, <1>7, <2>1, <3>1
    <2>2. CASE q \notin {p, np}
        BY <1>1, <1>7, <2>2 DEF Types, Depth
    <2> QED
        BY <2>1, <2>2
<1>9. loc' \in [Procs -> Places]
    BY <1>1, <1>3, RegistersTyped
<1>10. Types'
    BY <1>1, <1>3, <1>6, <1>7, <1>8, <1>9 DEF Types, Depth
<1>11. JobsOK'
    <2>3. getstr_buf' = getstr_buf
        BY <1>3
    <2> SUFFICES ASSUME NEW q \in Procs, NEW d \in 1..Len(stack'[q])
                 PROVE  JobOK(work'[q][d], d, getstr_buf)
        BY <2>3 DEF JobsOK, Depth, JobOK, OwnFrame, InProgress, Fits, Gives
    <2>1. CASE q \notin {p, np}
        BY <1>7, <2>1 DEF IInv, JobsOK, Depth
    <2>2. CASE q \in {p, np}
        <3>1. d \in 1..d0 /\ work'[q] = w
            BY <1>7, <2>2, Zenon
        <3>2. d \in 1..Depth(p) \/ d = d0
            BY <1>1, <3>1
        <3>3. CASE d = d0
            BY <1>2, <1>5, <3>1, <3>3, Zenon
        <3>4. CASE d \in 1..Depth(p)
            BY <1>5, <3>1, <3>4 DEF IInv, JobsOK
        <3> QED
            BY <3>2, <3>3, <3>4
    <2> QED
        BY <2>1, <2>2
<1> QED
    BY <1>6, <1>10, <1>11 DEF IInv, FramesIntact

LEMMA NextIInv == IInv /\ [Next]_vars => IInv'
<1> SUFFICES ASSUME IInv, [Next]_vars PROVE IInv'
    OBVIOUS
<1>1. CASE UNCHANGED vars
    BY <1>1, MachineStep DEF IInv, Types, vars, machine
<1>2. CASE Next
    <2>1. PICK p \in Procs :
            \/ (HardwareTick \/ TickIdle \/ TickInSwitch \/ Halted)
            \/ Exit(p) \/ Step(p) \/ (Resume(p) \/ TickInExit(p))
            \/ (HandlerReturns(p) \/ TickDone(p))
            \/ (Tick(p) \/ TickSignal(p)) \/ (OpenWindow(p) \/ CloseWindow(p) \/ WaitYield(p))
            \/ SyscallWait(p) \/ WaitDone(p) \/ SyscallRead(p) \/ GetKey(p) \/ ReadDone(p)
            \/ \E np \in Procs : Fork(p, np)
        BY <1>2, ProcsAssumption DEF Next
    <2>2. CASE Exit(p)
        BY <2>2, ExitKeeps
    <2>3. CASE Step(p)
        BY <2>3, StepKeeps
    <2>4. CASE Resume(p) \/ TickInExit(p)
        BY <2>4, ResumeKeeps
    <2>5. CASE HandlerReturns(p) \/ TickDone(p)
        BY <2>5, HandlerReturnsKeeps
    <2>6. CASE Tick(p) \/ TickSignal(p)
        BY <2>6, TickKeeps
    <2>7. CASE OpenWindow(p) \/ CloseWindow(p) \/ WaitYield(p)
        BY <2>7, WindowKeeps
    <2>8. CASE SyscallWait(p)
        BY <2>8, SyscallWaitKeeps
    <2>9. CASE WaitDone(p)
        BY <2>9, WaitDoneKeeps
    <2>10. CASE SyscallRead(p)
        BY <2>10, SyscallReadKeeps
    <2>11. CASE GetKey(p)
        BY <2>11, GetKeyKeeps
    <2>12. CASE ReadDone(p)
        BY <2>12, ReadDoneKeeps
    <2>13. CASE \E np \in Procs : Fork(p, np)
        BY <2>13, ForkKeeps
    <2>14. CASE HardwareTick \/ TickIdle \/ TickInSwitch \/ Halted
        BY <2>14, NobodyKeeps
    <2> QED
        BY <2>14, <2>1, <2>2, <2>3, <2>4, <2>5, <2>6, <2>7, <2>8, <2>9, <2>10, <2>11, <2>12, <2>13
<1> QED
    BY <1>1, <1>2

THEOREM Invariance == Spec => []IInv
BY InitIInv, NextIInv, PTL DEF Spec

-----------------------------------------------------------------------------
(* The types are right, traps nest no deeper than the stacks, and getstr() *)
(* never stores past the byte after getstr_buf: TypeOK holds for every     *)
(* number of processes, depth and buffer.                                  *)
THEOREM TypeCorrect == Spec => []TypeOK
<1>1. IInv => TypeOK
    <2> SUFFICES ASSUME IInv PROVE TypeOK
        OBVIOUS
    <2>1. Types /\ JobsOK
        BY DEF IInv
    <2>2. \A p \in Procs : \A d \in 1..Depth(p) : work[p][d].pos + work[p][d].count <= BufSize
        BY <2>1 DEF JobsOK, JobOK, Fits
    <2>3. \A p \in Procs : /\ loc[p] \in Places
                           /\ Depth(p) <= MaxDepth /\ Len(work[p]) = Depth(p)
        BY <2>1 DEF Types
    <2> QED
        BY <2>1, <2>2, <2>3 DEF TypeOK, Types, Places
<1> QED
    BY <1>1, Invariance, PTL

(* Every frame on every stack is what the code it interrupted needs back,  *)
(* although cur_sp is one global: syscall_handler() stores the result      *)
(* through the pointer it took on entry, and that is its own frame.        *)
THEOREM FramesStayIntact == Spec => []FramesIntact
<1>1. IInv => FramesIntact
    BY DEF IInv
<1> QED
    BY <1>1, Invariance, PTL

(* read() never gives more bytes than were asked for, and gives exactly    *)
(* what was typed unless another reader stored into getstr_buf meanwhile.  *)
THEOREM ReadGivesWhatWasTyped == Spec => []ReadGives
<1>1. IInv => ReadGives
    BY DEF IInv, JobsOK, JobOK, Gives, ReadGives
<1> QED
    BY <1>1, Invariance, PTL

-----------------------------------------------------------------------------
(* Only trap_exit takes a frame off a stack.                               *)
LEMMA OnlyExitPops ==
    ASSUME IInv, Next, NEW q \in Procs, Len(stack'[q]) < Depth(q)
    PROVE  Exit(q)
<1>1. Types /\ Types' /\ FramesIntact
    BY NextIInv DEF IInv
<1>2. Depth(q) \in Nat /\ Len(stack'[q]) \in Nat
    <2>1. stack'[q] \in Seq(Frames)
        BY <1>1 DEF Types
    <2> QED
        BY <1>1, <2>1, Depths, LenProperties
<1>3. stack'[q] # stack[q]
    BY <1>2 DEF Depth
<1>4. PICK p \in Procs :
        \/ Exit(p)
        \/ \E era, arg, job : Enter(p, era, arg, job)
        \/ stack' = stack
        \/ WaitDone(p) \/ ReadDone(p) \/ \E np \in Procs : Fork(p, np)
    <2>1. CASE stack' = stack
        BY <2>1, ProcsAssumption
    <2>2. CASE stack' # stack
        BY <2>2, Zenon DEF Next, HardwareTick, TickIdle, TickInSwitch, Halted, vars, Step, Resume, Tick, TickSignal,
           HandlerReturns, TickDone, TickInExit, SyscallWait, SyscallRead, Call,
           WaitYield, GetKey, OpenWindow, CloseWindow
    <2> QED
        BY <2>1, <2>2
<1>5. stack[p] \in Seq(Frames) /\ Len(stack[p]) \in Nat /\ stack \in [Procs -> Seq(Frames)]
    BY <1>1, Depths DEF Depth, Types
<1>6. CASE Exit(p)
    BY <1>3, <1>5, <1>6 DEF Exit
<1>7. CASE \E era, arg, job : Enter(p, era, arg, job)
    <2>1. PICK f : stack' = [stack EXCEPT ![p] = Append(stack[p], f)]
        BY <1>7 DEF Enter
    <2>2. q = p /\ stack'[q] = Append(stack[p], f)
        BY <1>3, <1>5, <2>1
    <2>3. Len(stack'[q]) = Len(stack[q]) + 1
        BY <1>5, <2>2, AppendProperties
    <2> QED
        BY <1>2, <2>3 DEF Depth
<1>8. CASE WaitDone(p) \/ ReadDone(p)
    <2>1. PICK ret, jobs, job : StoreResult(p, ret, jobs, job)
        BY <1>8 DEF WaitDone, ReadDone
    <2>2. \/ stack' = stack
          \/ \E k : stack' = [stack EXCEPT ![p] = [@ EXCEPT ![k].a0 = ret]]
        BY <2>1 DEF StoreResult
    <2>3. PICK k : stack' = [stack EXCEPT ![p] = [@ EXCEPT ![k].a0 = ret]]
        BY <1>3, <2>2
    <2>4. q = p /\ DOMAIN stack'[q] = DOMAIN stack[q]
        BY <1>3, <1>5, <2>3
    <2>5. DOMAIN stack'[q] = 1..Len(stack'[q]) /\ DOMAIN stack[q] = 1..Depth(q)
        BY <1>1, LenProperties DEF Types, Depth
    <2>6. \A m, n \in Nat : m < n => 1..m # 1..n
        <3>1. \A m, n \in Nat : m < n => n \in 1..n /\ n \notin 1..m
            OBVIOUS
        <3> QED
            BY <3>1, Zenon
    <2> QED
        BY <1>2, <2>4, <2>5, <2>6, Zenon
<1>9. CASE \E np \in Procs : Fork(p, np)
    <2>1. PICK np \in Procs : Fork(p, np)
        BY <1>9
    <2>2. PICK f, g : /\ np # p /\ stack[np] = <<>>
                      /\ stack' = [stack EXCEPT ![p] = Append(stack[p], f), ![np] = g]
        BY <2>1 DEF Fork
    <2>3. CASE q = np
        <3>1. Depth(q) = 0
            BY <2>2, <2>3, EmptySeq DEF Depth
        <3> QED
            BY <1>2, <3>1
    <2>4. CASE q # np
        <3>1. q = p /\ stack'[q] = Append(stack[p], f)
            BY <1>3, <1>5, <2>2, <2>4
        <3>2. Len(stack'[q]) = Len(stack[q]) + 1
            BY <1>5, <3>1, AppendProperties
        <3> QED
            BY <1>2, <3>2 DEF Depth
    <2> QED
        BY <2>3, <2>4
<1> QED
    BY <1>3, <1>4, <1>6, <1>7, <1>8, <1>9

-----------------------------------------------------------------------------
(* Where interrupts are off.                                               *)

(* Code of the kernel outside getstr()'s window, and signal handlers.      *)
Masked == Handler \union {Kernel}

(* Until First has left its first trap_exit nothing but ticks happens: the *)
(* frame exec() built is the outermost, the others are of interrupted      *)
(* kernel code.                                                            *)
Booting ==
    /\ cur \in {Idle, First, Lost}
    /\ \A p \in Procs : loc[p] = Kernel /\ (p # First => stack[p] = <<>>)
    /\ Depth(First) > 0 /\ stack[First][1].era \in User
    /\ \A d \in 2..Depth(First) : stack[First][d].era = Kernel
    /\ \A d \in 1..Depth(First) : work[First][d].what \in {"tick", "done"}

(* From then on the masked code runs with interrupts off, scheduler() too, *)
(* and a frame of interrupted masked code gives that back.                 *)
KernelMasked ==
    /\ cur = Idle => ie = 0
    /\ \A p \in Procs : Running(p) /\ loc[p] \in Masked => ie = 0
    /\ \A p \in Procs : \A d \in 1..Depth(p) : stack[p][d].era \in Masked => stack[p][d].ie = 0

BootInv == (booted = 0 => Booting) /\ (booted = 1 => KernelMasked)

(* What trap_entry leaves on the stacks.                                   *)
LEMMA EntersFrame ==
    ASSUME Types, NEW p \in Procs, NEW era \in Places, NEW arg \in Nat, NEW job,
           Enter(p, era, arg, job)
    PROVE  /\ ie' = 0
           /\ \A q \in Procs \ {p} : stack'[q] = stack[q] /\ work'[q] = work[q]
           /\ Len(stack'[p]) = Depth(p) + 1
           /\ \A d \in 1..Depth(p) : stack'[p][d] = stack[p][d]
           /\ stack'[p][Depth(p) + 1].era = era /\ stack'[p][Depth(p) + 1].ie = ie
           /\ work'[p] = Append(work[p], job)
<1> DEFINE f == Frame(era, arg, ie)
<1>1. f \in Frames /\ f.era = era /\ f.ie = ie
    BY DEF Types, Frame, Frames
<1>2. /\ stack' = [stack EXCEPT ![p] = Append(stack[p], f)] /\ ie' = 0
      /\ work' = [work EXCEPT ![p] = Append(work[p], job)]
    BY DEF Enter
<1> HIDE DEF f
<1>3. stack[p] \in Seq(Frames) /\ Len(stack[p]) = Depth(p)
    BY Depths DEF Depth
<1>4. /\ Len(Append(stack[p], f)) = Len(stack[p]) + 1 /\ Append(stack[p], f)[Len(stack[p]) + 1] = f
      /\ \A i \in 1..Len(stack[p]) : Append(stack[p], f)[i] = stack[p][i]
    BY <1>1, <1>3, Pushed
<1>5. /\ stack'[p] = Append(stack[p], f) /\ work'[p] = Append(work[p], job)
      /\ \A q \in Procs \ {p} : stack'[q] = stack[q] /\ work'[q] = work[q]
    BY <1>2 DEF Types
<1> QED
    BY <1>1, <1>2, <1>3, <1>4, <1>5, Zenon

(* trap_entry keeps KernelMasked: the frame of masked code has ie = 0.     *)
LEMMA MaskedEnter ==
    ASSUME Types, KernelMasked, NEW p \in Procs, NEW era \in Places, NEW arg \in Nat,
           NEW job, Enter(p, era, arg, job), era \in Masked => ie = 0
    PROVE  KernelMasked'
<1>1. /\ ie' = 0
      /\ \A q \in Procs \ {p} : stack'[q] = stack[q]
      /\ Len(stack'[p]) = Depth(p) + 1
      /\ \A d \in 1..Depth(p) : stack'[p][d] = stack[p][d]
      /\ stack'[p][Depth(p) + 1].era = era /\ stack'[p][Depth(p) + 1].ie = ie
    <2> HIDE DEF Enter
    <2> QED
        BY EntersFrame
<1>2. ASSUME NEW q \in Procs, NEW d \in 1..Len(stack'[q]), stack'[q][d].era \in Masked
      PROVE  stack'[q][d].ie = 0
    <2>1. CASE q # p
        BY <1>1, <1>2, <2>1 DEF KernelMasked, Depth
    <2>2. CASE q = p
        <3>1. Depth(p) \in Nat
            BY Depths
        <3>2. d \in 1..Depth(p) \/ d = Depth(p) + 1
            BY <1>1, <2>2, <3>1
        <3> QED
            BY <1>1, <1>2, <2>2, <3>2 DEF KernelMasked
    <2> QED
        BY <2>1, <2>2
<1> QED
    BY <1>1, <1>2 DEF KernelMasked, Depth

(* A result changes no program counter and no interrupt enable.            *)
LEMMA MaskedResult ==
    ASSUME Types, KernelMasked, NEW p \in Procs, NEW ret, NEW jobs, NEW job,
           StoreResult(p, ret, jobs, job), UNCHANGED machine
    PROVE  KernelMasked'
<1>1. stack' = stack \/ \E k \in 1..Depth(p) : stack' = [stack EXCEPT ![p] = [@ EXCEPT ![k].a0 = ret]]
    BY DEF StoreResult
<1>2. ASSUME NEW q \in Procs
      PROVE  /\ Len(stack'[q]) = Len(stack[q])
             /\ \A d \in 1..Len(stack[q]) : /\ stack'[q][d].era = stack[q][d].era
                                            /\ stack'[q][d].ie = stack[q][d].ie
    <2>1. stack[p] \in Seq(Frames) /\ \A d \in 1..Len(stack[p]) : stack[p][d] \in Frames
        BY Depths DEF Depth
    <2>2. CASE stack' = stack
        BY <2>2
    <2>3. ASSUME NEW k \in 1..Depth(p), stack' = [stack EXCEPT ![p] = [@ EXCEPT ![k].a0 = ret]]
          PROVE  /\ Len(stack'[q]) = Len(stack[q])
                 /\ \A d \in 1..Len(stack[q]) : /\ stack'[q][d].era = stack[q][d].era
                                                /\ stack'[q][d].ie = stack[q][d].ie
        <3> DEFINE e == [stack[p][k] EXCEPT !.a0 = ret]
                   t == [stack[p] EXCEPT ![k] = e]
        <3>1. k \in 1..Len(stack[p]) /\ e.era = stack[p][k].era /\ e.ie = stack[p][k].ie
            BY <2>1 DEF Frames, Depth
        <3>2. stack'[p] = t /\ (q # p => stack'[q] = stack[q])
            BY <2>3 DEF Types
        <3> HIDE DEF e
        <3>3. DOMAIN stack[p] = 1..Len(stack[p]) /\ Len(stack[p]) \in Nat
            BY <2>1, LenProperties
        <3>4. Len(t) = Len(stack[p]) /\ \A d \in 1..Len(stack[p]) : t[d] = IF d = k THEN e ELSE stack[p][d]
            <4>1. DOMAIN t = 1..Len(stack[p]) /\ \A d \in 1..Len(stack[p]) : t[d] = IF d = k THEN e ELSE stack[p][d]
                BY <3>1, <3>3
            <4>2. t = [d \in 1..Len(stack[p]) |-> t[d]]
                BY <4>1
            <4>3. t \in Seq({t[d] : d \in 1..Len(stack[p])}) /\ Len(t) = Len(stack[p])
                <5>1. t \in [1..Len(stack[p]) -> {t[d] : d \in 1..Len(stack[p])}]
                    BY <4>2
                <5> HIDE DEF t
                <5> QED
                    BY <3>3, <5>1, FunctionIsSeq
            <4> QED
                BY <4>1, <4>3
        <3> QED
            BY <3>1, <3>2, <3>4
    <2> QED
        BY <1>1, <2>2, <2>3
<1> QED
    BY <1>2 DEF KernelMasked, Depth, Running, machine

LEMMA MaskedExit ==
    ASSUME Types, KernelMasked, NEW p \in Procs, Exit(p)
    PROVE  KernelMasked'
<1>1. /\ stack[p] \in Seq(Frames) /\ Len(stack[p]) > 0 /\ Depth(p) \in 1..Depth(p)
      /\ Len(stack[p]) \in Nat /\ Depth(p) = Len(stack[p])
    BY Depths DEF Exit, Doing, Depth
<1>2. /\ Len(Front(stack[p])) = Len(stack[p]) - 1
      /\ \A i \in 1..(Len(stack[p]) - 1) : Front(stack[p])[i] = stack[p][i]
    BY <1>1, Popped
<1>3. /\ stack'[p] = Front(stack[p]) /\ \A q \in Procs \ {p} : stack'[q] = stack[q]
      /\ cur' = p /\ loc'[p] = stack[p][Depth(p)].era /\ ie' = stack[p][Depth(p)].ie
    BY DEF Exit, ExitFrame, Doing, Running, Types
<1>4. ie' = 0 \/ loc'[p] \notin Masked
    BY <1>1, <1>3 DEF KernelMasked
<1>5. ASSUME NEW q \in Procs, NEW d \in 1..Len(stack'[q]), stack'[q][d].era \in Masked
      PROVE  stack'[q][d].ie = 0
    <2>1. CASE q # p
        BY <1>3, <1>5, <2>1 DEF KernelMasked, Depth
    <2>2. CASE q = p
        <3>1. d \in 1..(Len(stack[p]) - 1)
            BY <1>2, <1>3, <2>2, Zenon
        <3>2. d \in 1..Depth(p)
            BY <1>1, <3>1
        <3>3. stack'[q][d] = stack[p][d]
            BY <1>2, <1>3, <2>2, <3>1, Zenon
        <3> QED
            BY <1>5, <3>2, <3>3 DEF KernelMasked
    <2> QED
        BY <2>1, <2>2
<1>6. cur' # Idle
    BY <1>3, ProcsAssumption
<1> QED
    BY <1>3, <1>4, <1>5, <1>6 DEF KernelMasked, Depth, Running

LEMMA MaskedFork ==
    ASSUME Types, KernelMasked, NEW p \in Procs, NEW np \in Procs, Fork(p, np)
    PROVE  KernelMasked'
<1>1. /\ stack[p] \in Seq(Frames) /\ Len(stack[p]) \in Nat /\ Depth(p) = Len(stack[p])
      /\ loc[p] + 4 \in Places /\ ie \in {0, 1} /\ loc[p] \in AtCall
    BY Depths, RegistersTyped DEF Fork, Depth, Types
<1>2. PICK f, g \in Frames :
        /\ stack' = [stack EXCEPT ![p] = Append(stack[p], f), ![np] = Append(stack[p], g)]
        /\ f.era = loc[p] + 4 /\ f.ie = ie /\ g.era = loc[p] + 4 /\ g.ie = ie
    <2> DEFINE f == Frame(loc[p] + 4, 1, ie)
               g == Frame(loc[p] + 4, 0, ie)
    <2>1. f \in Frames /\ g \in Frames
        BY <1>1 DEF Frame, Frames
    <2>2. stack' = [stack EXCEPT ![p] = Append(stack[p], f), ![np] = Append(stack[p], g)]
        BY DEF Fork
    <2>3. f.era = loc[p] + 4 /\ f.ie = ie /\ g.era = loc[p] + 4 /\ g.ie = ie
        BY DEF Frame
    <2> HIDE DEF f, g
    <2> QED
        BY <2>1, <2>2, <2>3
<1>3. loc[p] + 4 \in Masked => ie = 0
    <2>1. loc[p] + 4 \in Masked => loc[p] \in Masked
        BY <1>1 DEF AtCall, Masked, Handler, Kernel
    <2> QED
        BY <2>1 DEF KernelMasked, Fork
<1>4. ASSUME NEW h \in Frames, h.era = loc[p] + 4, h.ie = ie,
             NEW d \in 1..Len(Append(stack[p], h)), Append(stack[p], h)[d].era \in Masked
      PROVE  Append(stack[p], h)[d].ie = 0
    <2>1. /\ Len(Append(stack[p], h)) = Len(stack[p]) + 1
          /\ Append(stack[p], h)[Len(stack[p]) + 1] = h
          /\ \A i \in 1..Len(stack[p]) : Append(stack[p], h)[i] = stack[p][i]
        BY <1>1, Pushed
    <2>2. d \in 1..Len(stack[p]) \/ d = Len(stack[p]) + 1
        BY <1>1, <2>1
    <2> QED
        BY <1>1, <1>3, <1>4, <2>1, <2>2 DEF KernelMasked
<1>5. \A q \in Procs : stack'[q] = IF q = np THEN Append(stack[p], g)
                                   ELSE IF q = p THEN Append(stack[p], f) ELSE stack[q]
    BY <1>2 DEF Types
<1>6. ASSUME NEW q \in Procs, NEW d \in 1..Len(stack'[q]), stack'[q][d].era \in Masked
      PROVE  stack'[q][d].ie = 0
    <2>1. CASE q = np
        <3>1. stack'[q] = Append(stack[p], g)
            BY <1>5, <2>1
        <3> QED
            BY <1>2, <1>4, <1>6, <3>1
    <2>2. CASE q # np /\ q = p
        <3>1. stack'[q] = Append(stack[p], f)
            BY <1>5, <2>2
        <3> QED
            BY <1>2, <1>4, <1>6, <3>1
    <2>3. CASE q # np /\ q # p
        BY <1>5, <1>6, <2>3 DEF KernelMasked, Depth
    <2> QED
        BY <2>1, <2>2, <2>3
<1> QED
    BY <1>6 DEF KernelMasked, Depth, Fork

LEMMA MaskedKeeps ==
    ASSUME IInv, booted = 1, KernelMasked, Next
    PROVE  booted' = 1 /\ KernelMasked'
<1> USE DEF IInv
<1>1. Types /\ JobsOK
    BY DEF IInv
<1>2. CASE HardwareTick \/ TickIdle \/ TickInSwitch \/ Halted
    <2>1. ~ TickInSwitch
        BY DEF TickInSwitch, KernelMasked
    <2> QED
        BY <1>2, <2>1 DEF HardwareTick, TickIdle, Halted, vars, machine, KernelMasked, Depth, Running
<1>3. ASSUME NEW p \in Procs, Exit(p) PROVE booted' = 1 /\ KernelMasked'
    BY <1>1, <1>3, MaskedExit DEF Exit
<1>4. ASSUME NEW p \in Procs, Step(p) PROVE booted' = 1 /\ KernelMasked'
    <2>1. loc[p] - 4 \in Masked => loc[p] \in Masked
        BY <1>1, <1>4 DEF Step, InCode, Masked, AtCall, User, Handler, Kernel, Types
    <2>2. \A q \in Procs : loc'[q] = IF q = p THEN loc[p] - 4 ELSE loc[q]
        BY <1>1, <1>4 DEF Step, Types
    <2>3. UNCHANGED <<cur, ie, stack, booted>> /\ cur = p
        BY <1>4 DEF Step, InCode, Running
    <2> QED
        BY <2>1, <2>2, <2>3 DEF KernelMasked, Depth, Running
<1>5. ASSUME NEW p \in Procs, Resume(p) \/ TickInExit(p) \/ TickDone(p) PROVE booted' = 1 /\ KernelMasked'
    <2>1. UNCHANGED <<ie, loc, stack, booted>> /\ (ie = 0 \/ cur' = Lost)
        BY <1>5 DEF Resume, TickInExit, TickDone, KernelMasked, Masked, Doing
    <2>2. CASE cur' = Lost
        BY <2>1, <2>2, ProcsAssumption DEF KernelMasked, Depth, Running, Lost, Idle
    <2> QED
        BY <2>1, <2>2 DEF KernelMasked, Depth, Running
<1>6. ASSUME NEW p \in Procs, Tick(p) \/ TickSignal(p) PROVE booted' = 1 /\ KernelMasked'
    <2>1. PICK job : Enter(p, loc[p], a0[p], job) /\ job \in {Job("tick", 0), Job("signal", 0)}
        BY <1>6 DEF Tick, TickSignal
    <2>2. loc[p] \in Places /\ a0[p] \in Nat
        BY <1>1, RegistersTyped
    <2>3. (loc[p] \in Masked => ie = 0) /\ booted' = booted
        BY <1>6 DEF Tick, TickSignal, TimerTrap, KernelMasked
    <2> HIDE DEF Enter
    <2> QED
        BY <1>1, <2>1, <2>2, <2>3, MaskedEnter
<1>7. ASSUME NEW p \in Procs, HandlerReturns(p) \/ WaitYield(p) PROVE booted' = 1 /\ KernelMasked'
    <2>1. cur = p /\ loc[p] \in Masked
        BY <1>7 DEF HandlerReturns, WaitYield, Doing, InCode, Running, Masked
    <2>2. ie = 0 /\ UNCHANGED <<ie, stack, booted>>
        BY <1>7, <2>1 DEF KernelMasked, Running, HandlerReturns, WaitYield
    <2> QED
        BY <2>2 DEF KernelMasked, Depth
<1>8. ASSUME NEW p \in Procs, SyscallWait(p) \/ SyscallRead(p) PROVE booted' = 1 /\ KernelMasked'
    <2>1. PICK arg, job : arg \in Nat /\ Call(p, arg, job) /\ UNCHANGED <<cur, booted>>
        BY <1>8, BoundsAssumption DEF SyscallWait, SyscallRead
    <2>2. stack[p] \in Seq(Frames) /\ loc[p] + 4 \in Places /\ loc[p] \in AtCall /\ cur = p
        BY <1>1, <2>1, Depths, RegistersTyped DEF Call, Running
    <2>3. loc[p] + 4 \in Masked => ie = 0
        <3>1. loc[p] + 4 \in Masked => loc[p] \in Masked
            BY <2>2 DEF AtCall, Masked, Handler, Kernel
        <3> QED
            BY <2>2, <3>1 DEF KernelMasked, Running
    <2>4. KernelMasked'
        <3>1. Enter(p, loc[p] + 4, arg, job) /\ arg \in Nat
            BY <2>1 DEF Call
        <3> HIDE DEF Enter
        <3> QED
            BY <1>1, <2>2, <2>3, <3>1, MaskedEnter
    <2> QED
        BY <2>1, <2>4
<1>9. ASSUME NEW p \in Procs, WaitDone(p) \/ ReadDone(p) PROVE booted' = 1 /\ KernelMasked'
    <2>1. PICK ret, jobs, job : StoreResult(p, ret, jobs, job)
        BY <1>9 DEF WaitDone, ReadDone
    <2>2. UNCHANGED machine
        BY <1>9 DEF WaitDone, ReadDone
    <2> HIDE DEF StoreResult
    <2> QED
        BY <1>1, <2>1, <2>2, MaskedResult DEF machine
<1>10. ASSUME NEW p \in Procs, GetKey(p) PROVE booted' = 1 /\ KernelMasked'
    BY <1>10 DEF GetKey, machine, KernelMasked, Depth, Running
<1>11. ASSUME NEW p \in Procs, OpenWindow(p) \/ CloseWindow(p) PROVE booted' = 1 /\ KernelMasked'
    <2>1. /\ cur = p /\ UNCHANGED <<cur, stack, booted>>
          /\ ie' = 0 \/ loc'[p] = Window
        BY <1>1, <1>11 DEF OpenWindow, CloseWindow, Doing, Running, Types
    <2>2. Window \notin Masked
        BY DEF Window, Masked, Handler, Kernel
    <2>3. cur # Idle
        BY <2>1, ProcsAssumption
    <2> QED
        BY <2>1, <2>2, <2>3 DEF KernelMasked, Depth, Running
<1>12. ASSUME NEW p \in Procs, NEW np \in Procs, Fork(p, np) PROVE booted' = 1 /\ KernelMasked'
    BY <1>1, <1>12, MaskedFork DEF Fork
<1> QED
    BY <1>2, <1>3, <1>4, <1>5, <1>6, <1>7, <1>8, <1>9, <1>10, <1>11, <1>12 DEF Next

LEMMA BootingKeeps ==
    ASSUME IInv, booted = 0, Booting, Next
    PROVE  BootInv'
<1>1. /\ Types /\ First \in Procs /\ stack[First] \in Seq(Frames) /\ work[First] \in Seq(Jobs)
      /\ Depth(First) \in Nat /\ Len(work[First]) = Depth(First) /\ Len(stack[First]) = Depth(First)
    BY Depths, ProcsAssumption DEF IInv, Depth
<1>2. \A p \in Procs : /\ loc[p] \notin User \union Handler \union {Window} \union AtCall
                       /\ Depth(p) > 0 => p = First
                       /\ Running(p) => p = First
    <2>1. ASSUME NEW p \in Procs PROVE Depth(p) > 0 => p = First
        BY EmptySeq DEF Booting, Depth
    <2>2. ASSUME NEW p \in Procs PROVE Running(p) => p = First
        BY ProcsAssumption DEF Booting, Running, Idle, Lost
    <2> QED
        BY <2>1, <2>2 DEF Booting, Kernel, User, Handler, Window, AtCall
<1>3. \A p \in Procs : ~ (Doing(p, "wait") \/ Doing(p, "read"))
    <2> SUFFICES ASSUME NEW p \in Procs, Doing(p, "wait") \/ Doing(p, "read") PROVE FALSE
        OBVIOUS
    <2>1. p = First /\ Depth(First) \in 1..Depth(First)
        BY <1>1, <1>2 DEF Doing
    <2> QED
        BY <2>1 DEF Booting, Doing, Top
<1>4. \/ HardwareTick \/ TickIdle \/ TickInSwitch \/ Halted
      \/ Exit(First) \/ Resume(First) \/ Tick(First) \/ TickDone(First) \/ TickInExit(First)
    <2> SUFFICES ASSUME NEW p \in Procs,
                     \/ Exit(p) \/ Step(p) \/ Resume(p)
                     \/ Tick(p) \/ TickSignal(p) \/ HandlerReturns(p) \/ TickDone(p) \/ TickInExit(p)
                     \/ SyscallWait(p) \/ WaitYield(p) \/ WaitDone(p)
                     \/ SyscallRead(p) \/ GetKey(p) \/ OpenWindow(p) \/ CloseWindow(p) \/ ReadDone(p)
                     \/ \E np \in Procs : Fork(p, np)
                 PROVE  Exit(First) \/ Resume(First) \/ Tick(First) \/ TickDone(First) \/ TickInExit(First)
        BY Zenon DEF Next
    <2>1. ~ (Step(p) \/ HandlerReturns(p) \/ CloseWindow(p) \/ SyscallWait(p) \/ SyscallRead(p)
                \/ \E np \in Procs : Fork(p, np))
        BY <1>2 DEF Step, HandlerReturns, InCode, CloseWindow, SyscallWait, SyscallRead, Call, Fork
    <2>2. ~ (WaitYield(p) \/ WaitDone(p) \/ GetKey(p) \/ OpenWindow(p) \/ ReadDone(p))
        BY <1>3 DEF WaitYield, WaitDone, GetKey, OpenWindow, ReadDone
    <2>3. ~ TickSignal(p)
        BY DEF TickSignal, Booting
    <2>4. Exit(p) \/ Resume(p) \/ Tick(p) \/ TickDone(p) \/ TickInExit(p)
        BY <2>1, <2>2, <2>3
    <2>5. p = First
        BY <1>2, <2>4 DEF Exit, Resume, Tick, TimerTrap, TickDone, TickInExit, Doing
    <2> QED
        BY <2>4, <2>5
<1>5. CASE HardwareTick \/ TickIdle \/ TickInSwitch \/ Halted \/ Resume(First) \/ TickInExit(First)
    <2>1. UNCHANGED <<loc, stack, work, booted>> /\ cur' \in {Idle, First, Lost}
        BY <1>5 DEF HardwareTick, TickIdle, TickInSwitch, Halted, Resume, TickInExit, vars, machine, Booting
    <2> QED
        BY <2>1 DEF Booting, BootInv, Depth
<1>6. CASE TickDone(First)
    <2> DEFINE j == Job("done", 0)
               t == [work[First] EXCEPT ![Len(work[First])] = j]
    <2>1. UNCHANGED <<cur, loc, stack, booted>> /\ work' = [work EXCEPT ![First] = t]
        BY <1>1, <1>6 DEF TickDone, SetTop
    <2>2. j \in Jobs /\ j.what = "done"
        BY NewJob DEF Job
    <2> HIDE DEF j
    <2>3. \A i \in 1..Len(work[First]) : t[i] = IF i = Len(work[First]) THEN j ELSE work[First][i]
        BY <1>1, <2>2, Replaced
    <2> HIDE DEF t
    <2>4. work'[First] = t
        BY <1>1, <2>1 DEF Types
    <2>5. \A d \in 1..Depth(First) : work'[First][d].what \in {"tick", "done"}
        BY <1>1, <2>2, <2>3, <2>4 DEF Booting
    <2> QED
        BY <2>1, <2>5 DEF Booting, BootInv, Depth
<1>7. CASE Tick(First)
    <2> DEFINE j == Job("tick", 0)
               D == Depth(First)
    <2>1. Enter(First, loc[First], a0[First], j) /\ loc[First] = Kernel
        BY <1>1, <1>7 DEF Tick, Booting
    <2>2. loc[First] \in Places /\ a0[First] \in Nat /\ j \in Jobs /\ j.what = "tick"
        BY <1>1, RegistersTyped, NewJob DEF Job
    <2>3. /\ \A q \in Procs \ {First} : stack'[q] = stack[q]
          /\ Len(stack'[First]) = D + 1
          /\ \A d \in 1..D : stack'[First][d] = stack[First][d]
          /\ stack'[First][D + 1].era = Kernel
          /\ work'[First] = Append(work[First], j)
        <3> HIDE DEF Enter, j
        <3> QED
            BY <1>1, <2>1, <2>2, EntersFrame
    <2>4. /\ \A d \in 1..D : work'[First][d] = work[First][d]
          /\ work'[First][D + 1] = j
        <3> HIDE DEF j
        <3>1. /\ \A d \in 1..Len(work[First]) : Append(work[First], j)[d] = work[First][d]
              /\ Append(work[First], j)[Len(work[First]) + 1] = j
            BY <1>1, <2>2, Pushed
        <3> QED
            BY <1>1, <2>3, <3>1
    <2>5. booted' = 0 /\ cur' = Idle /\ \A q \in Procs : loc'[q] = Kernel
        BY <1>1, <1>7 DEF Tick, Yield, Booting, Types
    <2>6. D \in Nat /\ D > 0
        BY <1>1 DEF Booting
    <2> HIDE DEF j, D
    <2>7. /\ stack'[First][1].era \in User
          /\ \A d \in 2..(D + 1) : stack'[First][d].era = Kernel
        <3>1. 1 \in 1..D /\ \A d \in 2..(D + 1) : (d \in 2..D /\ d \in 1..D) \/ d = D + 1
            BY <2>6
        <3> QED
            BY <2>3, <3>1 DEF Booting, D
    <2>8. \A d \in 1..(D + 1) : work'[First][d].what \in {"tick", "done"}
        <3>1. \A d \in 1..(D + 1) : d \in 1..D \/ d = D + 1
            BY <2>6
        <3> QED
            BY <2>2, <2>4, <3>1 DEF Booting, D
    <2>9. Booting'
        <3>1. \A q \in Procs : q # First => stack'[q] = <<>>
            BY <2>3 DEF Booting
        <3>2. Len(stack'[First]) > 0 /\ Len(stack'[First]) = D + 1
            BY <2>3, <2>6
        <3> QED
            BY <2>5, <2>7, <2>8, <3>1, <3>2, Zenon DEF Booting, Depth
    <2> QED
        BY <2>5, <2>9 DEF BootInv
<1>8. CASE Exit(First)
    <2> DEFINE D == Depth(First)
    <2>1. D \in Nat /\ D > 0
        BY <1>1 DEF Booting
    <2>2. /\ Len(Front(stack[First])) = D - 1 /\ Len(Front(work[First])) = D - 1
          /\ \A i \in 1..(D - 1) : /\ Front(stack[First])[i] = stack[First][i]
                                   /\ Front(work[First])[i] = work[First][i]
        <3>1. /\ Len(Front(stack[First])) = Len(stack[First]) - 1
              /\ \A i \in 1..(Len(stack[First]) - 1) : Front(stack[First])[i] = stack[First][i]
            BY <1>1, <2>1, Popped
        <3>2. /\ Len(Front(work[First])) = Len(work[First]) - 1
              /\ \A i \in 1..(Len(work[First]) - 1) : Front(work[First])[i] = work[First][i]
            BY <1>1, <2>1, Popped
        <3> QED
            BY <1>1, <3>1, <3>2, Zenon
    <2>3. /\ stack'[First] = Front(stack[First]) /\ work'[First] = Front(work[First])
          /\ \A q \in Procs \ {First} : stack'[q] = stack[q] /\ loc'[q] = loc[q]
          /\ cur' = First /\ cur = First /\ loc'[First] = stack[First][D].era
          /\ booted' = IF D = 1 THEN 1 ELSE booted
        BY <1>1, <1>8 DEF Exit, ExitFrame, Doing, Running, Types
    <2> HIDE DEF D
    <2>4. CASE D = 1
        <3>1. \A q \in Procs : Len(stack'[q]) = 0
            <4>1. Len(stack'[First]) = 0
                BY <2>2, <2>3, <2>4
            <4>2. \A q \in Procs \ {First} : Len(stack'[q]) = 0
                BY <2>3, EmptySeq DEF Booting
            <4> QED
                BY <4>1, <4>2
        <3>2. loc'[First] \notin Masked
            <4>1. loc'[First] \in User
                BY <2>3, <2>4 DEF Booting
            <4> QED
                BY <4>1 DEF User, Masked, Handler, Kernel
        <3>3. \A q \in Procs : Running(q)' => q = First
            BY <2>3 DEF Running
        <3>4. cur' # Idle
            BY <1>1, <2>3, ProcsAssumption
        <3>5. KernelMasked'
            BY <3>1, <3>2, <3>3, <3>4 DEF KernelMasked, Depth
        <3> QED
            BY <2>3, <2>4, <3>5 DEF BootInv
    <2>5. CASE D # 1
        <3>1. D \in 2..D /\ D - 1 > 0 /\ 1 \in 1..(D - 1)
            BY <2>1, <2>5
        <3>2. /\ \A d \in 2..(D - 1) : d \in 2..D /\ d \in 1..(D - 1)
              /\ \A d \in 1..(D - 1) : d \in 1..D
            BY <2>1
        <3>3. \A q \in Procs : loc'[q] = Kernel /\ (q # First => stack'[q] = <<>>)
            BY <2>3, <3>1 DEF Booting, D
        <3>4. /\ Len(stack'[First]) = D - 1 /\ stack'[First][1].era \in User
              /\ \A d \in 2..(D - 1) : stack'[First][d].era = Kernel
            BY <2>2, <2>3, <3>1, <3>2 DEF Booting, D
        <3>5. \A d \in 1..(D - 1) : work'[First][d].what \in {"tick", "done"}
            BY <2>2, <2>3, <3>2 DEF Booting, D
        <3>6. Booting'
            BY <2>3, <3>1, <3>3, <3>4, <3>5 DEF Booting, Depth
        <3> QED
            BY <2>3, <2>5, <3>6 DEF BootInv
    <2> QED
        BY <2>4, <2>5
<1> QED
    BY <1>4, <1>5, <1>6, <1>7, <1>8

LEMMA InitBoot == Init => BootInv
<1> SUFFICES ASSUME Init PROVE BootInv
    OBVIOUS
<1> DEFINE f == Frame(0, 0, 1)
           j == Job("done", 1)
<1>1. f.era \in User /\ j.what = "done"
    BY DEF Frame, Job, User
<1>2. /\ First \in Procs /\ stack[First] = <<f>> /\ work[First] = <<j>>
      /\ \A p \in Procs \ {First} : stack[p] = <<>>
      /\ \A p \in Procs : loc[p] = Kernel
      /\ cur = Idle /\ booted = 0
    BY ProcsAssumption DEF Init
<1> HIDE DEF f, j
<1>3. /\ Len(<<f>>) = 1 /\ <<f>>[1] = f /\ <<j>>[1] = j
      /\ \A d \in 1..1 : d = 1
      /\ \A d : d \notin 2..1
    OBVIOUS
<1>4. Booting
    <2>1. Depth(First) = 1
        BY <1>2, <1>3 DEF Depth
    <2> QED
        BY <1>1, <1>2, <1>3, <2>1 DEF Booting
<1> QED
    BY <1>2, <1>4 DEF BootInv

LEMMA NextBoot == IInv /\ BootInv /\ [Next]_vars => BootInv'
<1> SUFFICES ASSUME IInv, BootInv, [Next]_vars PROVE BootInv'
    OBVIOUS
<1>1. CASE UNCHANGED vars
    BY <1>1 DEF vars, machine, BootInv, Booting, KernelMasked, Depth, Running
<1>2. CASE Next
    <2>1. booted \in {0, 1}
        BY DEF IInv, Types
    <2> QED
        BY <1>2, <2>1, MaskedKeeps, BootingKeeps DEF BootInv
<1> QED
    BY <1>1, <1>2

(* Interrupts are off in scheduler(), in the kernel outside getstr()'s     *)
(* window and in signal handlers, once the first trap_exit is over.        *)
THEOREM MaskedAfterBoot == Spec => []BootInv
BY InitBoot, NextBoot, Invariance, PTL DEF Spec

(* ertn gives the interrupted code its own program counter, $a0 and        *)
(* interrupt enable, at every depth: the frame trap_exit loads from is the *)
(* one the trap pushed, with the result if it was a system call.  ERA and  *)
(* PRMD can change under trap_exit, and the saved registers under          *)
(* switch_to(), only before any process has been in user mode: from then   *)
(* on both run with interrupts off.                                        *)
THEOREM ReturnsAreOwn == Spec => ReturnsToItsOwn
<1> DEFINE A == /\ \A p \in Procs : Len(stack'[p]) < Depth(p) =>
                    Frame(loc'[p], a0'[p], ie') = Last(expect[p])
                /\ cur' = Lost => booted = 0
<1>1. ASSUME IInv, Next, NEW p \in Procs, Len(stack'[p]) < Depth(p)
      PROVE  Frame(loc'[p], a0'[p], ie') = Last(expect[p])
    <2>1. Exit(p)
        BY <1>1, OnlyExitPops
    <2>2. Types /\ expect = stack
        BY <1>1 DEF IInv, FramesIntact
    <2>3. Depth(p) \in Nat /\ Depth(p) > 0 /\ stack[p][Depth(p)] \in Frames
        BY <2>1, <2>2, Depths DEF Exit, Doing
    <2> DEFINE f == stack[p][Depth(p)]
    <2>4. loc'[p] = f.era /\ a0'[p] = f.a0 /\ ie' = f.ie
        BY <2>1, <2>2 DEF Exit, ExitFrame, Types
    <2>5. Last(expect[p]) = f
        BY <2>2 DEF Last, Depth
    <2> HIDE DEF f
    <2>6. f \in Frames
        BY <2>3 DEF f
    <2>7. Frame(f.era, f.a0, f.ie) = f
        BY <2>6 DEF Frames, Frame
    <2> QED
        BY <2>4, <2>5, <2>7
<1>2. ASSUME IInv, BootInv, Next, cur' = Lost, ~ UNCHANGED vars
      PROVE  booted = 0
    <2>1. Types
        BY <1>2 DEF IInv
    <2>2. \A p \in Procs : p # Lost /\ Idle # Lost
        BY ProcsAssumption DEF Idle, Lost
    <2>3. CASE cur # Lost
        <3>1. TickInSwitch \/ \E p \in Procs : TickInExit(p)
            BY <1>2, <2>2, <2>3, Zenon DEF Next, HardwareTick, TickIdle, Halted, Exit, Step, Resume, Tick,
                TickSignal, HandlerReturns, TickDone, SyscallWait, WaitYield, Yield, WaitDone,
                SyscallRead, GetKey, OpenWindow, CloseWindow, ReadDone, Fork, machine
        <3>2. ie = 1 /\ (cur = Idle \/ \E p \in Procs : cur = p /\ loc[p] \in Masked)
            BY <3>1 DEF TickInSwitch, TickInExit, Doing, Running, Masked
        <3>3. booted # 1
            BY <1>2, <3>2 DEF BootInv, KernelMasked, Running
        <3> QED
            BY <2>1, <3>3 DEF Types
    <2>4. CASE cur = Lost
        <3>1. \A p \in Procs : ~ Running(p) /\ cur # Idle
            BY <2>2, <2>4 DEF Running
        <3>2. ~ (HardwareTick \/ TickIdle \/ TickInSwitch \/ Halted)
            BY <1>2, <2>4 DEF HardwareTick, TickIdle, TickInSwitch, Halted, Idle, Lost
        <3>3. ASSUME NEW p \in Procs
              PROVE  /\ ~ (Exit(p) \/ Step(p) \/ Resume(p) \/ Tick(p) \/ TickSignal(p))
                     /\ ~ (HandlerReturns(p) \/ TickDone(p) \/ TickInExit(p))
                     /\ ~ (SyscallWait(p) \/ WaitYield(p) \/ WaitDone(p) \/ SyscallRead(p))
                     /\ ~ (GetKey(p) \/ OpenWindow(p) \/ CloseWindow(p) \/ ReadDone(p))
                     /\ \A np \in Procs : ~ Fork(p, np)
            BY <3>1, Zenon DEF Exit, Step, Resume, Tick, TickSignal, TimerTrap, HandlerReturns, InCode,
                TickDone, TickInExit, Doing, SyscallWait, Call, WaitYield, WaitDone, SyscallRead,
                GetKey, OpenWindow, CloseWindow, ReadDone, Fork
        <3> QED
            BY <1>2, <3>2, <3>3 DEF Next
    <2> QED
        BY <2>3, <2>4
<1>3. IInv /\ BootInv /\ [Next]_vars => [A]_vars
    BY <1>1, <1>2
<1>4. Spec => [][A]_vars
    BY <1>3, Invariance, MaskedAfterBoot, PTL DEF Spec
<1> QED
    BY <1>4 DEF ReturnsToItsOwn

=============================================================================
