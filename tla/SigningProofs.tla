---------------------------- MODULE SigningProofs ----------------------------
(***************************************************************************)
(* Proofs about signing and verifying, for every number of processes and   *)
(* of pieces. Local is what a process knows of itself, View what it may    *)
(* say of the files while nobody else writes them, Known where a           *)
(* signature comes from.                                                   *)
(***************************************************************************)
EXTENDS Signing, SequenceTheorems, TLAPS

Is(r, cmd, places) == r.task.cmd = cmd /\ r.pc \in places

\* Where a process may be with its command.
Placed(r) ==
    /\ r.pc = "idle" => r = Fresh
    /\ r.pc # "idle" => r.task \in Task
    /\ r.pc = "signature" => r.task.cmd = "verify"
    /\ r.pc \in {"create", "write"} => r.task.cmd = "sign"
    /\ r.pc \in {"init", "open"} => r.task.cmd \in {"sign", "verify"}
    /\ r.pc \in {"read", "final"} => r.task.cmd \in {"sign", "verify", "checksum"}
    /\ r.pc \in {"private", "write private", "public", "write public"}
         => r.task.cmd = "keygen"

\* What it may hold there.
Holding(r) ==
    /\ r.pc \in {"idle", "done", "killed"} => r.held = {}
    /\ r.pc = "signature" => r.held \subseteq {"pkey"}
    /\ r.pc # "idle" /\ "file" \in r.held => r.pc = "read" \/ r.task.cmd = "checksum"
    /\ r.pc # "idle" /\ "buffer" \in r.held
         => r.pc \in {"create", "write"} \/ r.task.cmd = "verify"
    /\ r.pc # "idle" /\ r.task.cmd = "checksum" => r.held \subseteq {"ctx", "file"}
    /\ r.pc # "idle" /\ r.task.cmd = "keygen" => r.held \subseteq {"pkey"}

Keyed(r) ==
    /\ r.pc \in {"signature", "init", "open", "create", "write", "private",
                 "write private", "public", "write public"} => r.key \in Key
    /\ r.pc \in {"read", "final"} /\ r.task.cmd # "checksum"
         => r.key \in Key /\ InitAccepts(r.key, r.task)
    /\ r.pc = "open" => InitAccepts(r.key, r.task)
    /\ r.pc \in {"read", "final"} /\ r.task.cmd = "checksum" => r.key = Missing
    /\ r.pc \in {"read", "final"} /\ r.task.cmd # "checksum" /\ Len(r.read) > 0
         => Type[r.key] \notin OneShot

Content(r) ==
    /\ r.pc \in {"signature", "init", "open"} => r.read = <<>>
    /\ r.pc = "final" /\ ~r.fault => Len(r.read) = Chunks
    /\ r.pc \in {"create", "write"} /\ ~r.fault => Len(r.read) = Chunks
    /\ Is(r, "sign", {"init", "open", "read", "final"}) => r.buffer = Missing
    /\ r.pc \in {"create", "write"}
         => r.buffer = Signature(r.key, r.read)
    /\ Is(r, "verify", {"done"}) /\ r.ok
         => /\ r.key \in Key
            /\ r.buffer = Signature(r.key, r.read)

Local == {r \in Jobs : Placed(r) /\ Holding(r) /\ Keyed(r) /\ Content(r)}

\* What the answer of a process says of the files, as AnswerIsTrue and NoStaleSignature.
Answer(r) ==
    /\ Is(r, "verify", {"done"}) /\ ~r.fault =>
         (r.ok <=> Genuine /\ Type[pub] \notin OneShot /\ InitAccepts(pub, r.task))
    /\ Is(r, "checksum", {"done"}) /\ ~r.fault => (r.ok <=> data = Original)
    /\ Is(r, "keygen", {"done"}) /\ r.ok /\ ~r.fault => priv \in Key /\ pub = priv
    /\ Is(r, "sign", {"done"}) /\ r.ok /\ ~r.fault
         => sig = Signature(priv, data)
    /\ Is(r, "sign", {"done"}) /\ r.ok /\ r.task.by = "tool"
         => sig \in {Broken, Signature(priv, r.read)}

\* What it knows of them before.
Sight(r) ==
    /\ \A i \in 1 .. Len(r.read) : r.read[i] = data[i]
    /\ Is(r, "sign", {"init", "open", "read", "final", "create", "write"}) => r.key = priv
    /\ Is(r, "verify", {"signature", "init", "open", "read", "final"}) => r.key = pub
    /\ Is(r, "verify", {"init", "open", "read", "final"}) => r.buffer = sig
    /\ Is(r, "keygen", {"public", "write public"}) /\ ~r.fault => r.key = priv

View(r) == Sight(r) /\ Answer(r)

\* A signature was made by some process, or was there at first.
Known(s) == s \in {Missing, Broken} \/ s.bytes = Original \/ s \in Made

FilesOK ==
    /\ data \in [1 .. Chunks -> Version]
    /\ sig \in {Missing, Broken} \cup Signatures
    /\ {priv, pub} \subseteq Key \cup {Broken}
    /\ made \subseteq Key
    /\ rewrites \in 0 .. MaxRewrites

SigningInv ==
    /\ FilesOK
    /\ job \in [Job -> Local] /\ alone \subseteq Job
    /\ \A j \in Job : Known(job[j].buffer)
    /\ Known(sig)
    /\ \A j \in alone : View(job[j])

-----------------------------------------------------------------------------
(* Bytes.                                                                  *)

LEMMA BytesProperties ==
    ASSUME NEW s \in Bytes
    PROVE  s \in Seq(Version) /\ Len(s) \in 0 .. Chunks /\ s \in [1 .. Len(s) -> Version]
<1> USE SigningAssumption
<1>1. PICK n \in 0 .. Chunks : s \in [1 .. n -> Version]
  BY DEF Bytes
<1>2. n \in Nat
  BY <1>1
<1>3. s \in Seq(Version)
  BY <1>1, <1>2, SeqDef
<1>4. Len(s) = n
  BY <1>1, <1>2, <1>3, LenProperties
<1>5. QED
  BY <1>1, <1>3, <1>4

LEMMA EmptyBytes == <<>> \in Bytes /\ Len(<<>>) = 0
<1> USE SigningAssumption
<1>1. 0 \in 0 .. Chunks
  OBVIOUS
<1>2. <<>> \in [1 .. 0 -> Version]
  OBVIOUS
<1>3. QED
  BY <1>1, <1>2 DEF Bytes

\* One piece more.
LEMMA MoreBytes ==
    ASSUME NEW s \in Bytes, Len(s) < Chunks, NEW v \in Version
    PROVE  /\ Append(s, v) \in Bytes /\ Len(Append(s, v)) = Len(s) + 1
           /\ \A i \in 1 .. Len(s) : Append(s, v)[i] = s[i]
           /\ Append(s, v)[Len(s) + 1] = v
<1> USE SigningAssumption
<1>1. s \in Seq(Version) /\ Len(s) \in 0 .. Chunks
  BY BytesProperties
<1>2. /\ Append(s, v) \in Seq(Version)
      /\ Len(Append(s, v)) = Len(s) + 1
      /\ \A i \in 1 .. Len(s) : Append(s, v)[i] = s[i]
      /\ Append(s, v)[Len(s) + 1] = v
  BY <1>1, AppendProperties
<1>3. Append(s, v) \in [1 .. Len(s) + 1 -> Version]
  BY <1>2, LenProperties
<1>4. Len(s) + 1 \in 0 .. Chunks
  BY <1>1
<1>5. QED
  BY <1>2, <1>3, <1>4 DEF Bytes

\* All of them are the file.
LEMMA AllBytes ==
    ASSUME NEW s \in Bytes, Len(s) = Chunks, NEW d \in [1 .. Chunks -> Version],
           \A i \in 1 .. Len(s) : s[i] = d[i]
    PROVE  s = d
<1>1. s \in [1 .. Chunks -> Version]
  BY BytesProperties
<1>2. QED
  BY <1>1

LEMMA OriginalType == Original \in [1 .. Chunks -> Version] /\ Original \in Bytes
<1> USE SigningAssumption
<1>1. Original \in [1 .. Chunks -> Version]
  BY DEF Original
<1>2. Chunks \in 0 .. Chunks
  OBVIOUS
<1>3. QED
  BY <1>1, <1>2 DEF Bytes

LEMMA SignatureType ==
    ASSUME NEW k \in Key, NEW b \in Bytes
    PROVE  /\ Signature(k, b) \in Signatures
           /\ Signature(k, b) \notin {Missing, Broken}
<1> USE SigningAssumption
<1>1. Padding(k) \in {"pkcs1", "pss", "none"}
  BY DEF Padding
<1>2. QED
  BY <1>1 DEF Signature, Signatures

LEMMA Distinct == Missing \notin Key /\ Broken \notin Key /\ Missing \notin Task
                  /\ Missing \notin Signatures /\ Broken \notin Signatures
BY SigningAssumption

LEMMA FreshIsLocal == Fresh \in Local
<1> USE SigningAssumption
<1>1. Fresh \in Jobs
  BY EmptyBytes DEF Fresh, Jobs, Places
<1>2. Placed(Fresh) /\ Holding(Fresh) /\ Keyed(Fresh) /\ Content(Fresh)
  BY DEF Fresh, Placed, Holding, Keyed, Content, Is
<1>3. QED
  BY <1>1, <1>2 DEF Local

-----------------------------------------------------------------------------
(* A step of a process.                                                    *)

\* A signature that was made stays made.
LEMMA MadeGrows ==
    ASSUME NEW j \in Job, NEW q, job \in [Job -> Local], Become(j, q),
           job[j].task = Missing \/ q.task = job[j].task,
           job[j].task # Missing /\ job[j].task.cmd = "sign" /\ job[j].buffer # Missing
             => q.buffer = job[j].buffer,
           NEW s, s \in Made, s # Missing
    PROVE  s \in Made'
<1>1. PICK i \in Job : /\ job[i].task # Missing /\ job[i].task.cmd = "sign"
                       /\ s = job[i].buffer
  BY DEF Made
<1>2. /\ job'[i].task # Missing /\ job'[i].task.cmd = "sign"
      /\ s = job'[i].buffer
  <2>1. CASE i = j
    <3>1. job'[i] = q
      BY <2>1 DEF Become
    <3>2. QED
      BY <1>1, <2>1, <3>1
  <2>2. CASE i # j
    <3>1. job'[i] = job[i]
      BY <2>2 DEF Become
    <3>2. QED
      BY <1>1, <3>1
  <2>3. QED
    BY <2>1, <2>2
<1>3. QED
  BY <1>1, <1>2 DEF Made

\* What every step of a process has to show of what it becomes.
LEMMA JobStep ==
    ASSUME SigningInv, NEW j \in Job, NEW q, Become(j, q), q \in Local, FilesOK',
           job[j].task = Missing \/ q.task = job[j].task,
           job[j].task # Missing /\ job[j].task.cmd = "sign" /\ job[j].buffer # Missing
             => q.buffer = job[j].buffer,
           \/ q.buffer \in {Missing, sig, job[j].buffer}
           \/ q.task # Missing /\ q.task.cmd = "sign",
           sig' \in {sig, Broken, job[j].buffer},
           \/ UNCHANGED files /\ alone' \subseteq alone \cup {j}
           \/ alone' \subseteq alone \cap {j},
           j \in alone' => View(q)'
    PROVE  SigningInv'
<1>0. job'[j] = q /\ \A k \in Job \ {j} : job'[k] = job[k]
  BY DEF Become, SigningInv
<1>1. job' \in [Job -> Local]
  BY DEF Become, SigningInv
<1>2. alone' \subseteq Job
  BY DEF SigningInv
<1>3. ASSUME NEW s, Known(s) PROVE Known(s)'
  <2>1. s \in Made /\ s # Missing => s \in Made'
    BY MadeGrows DEF SigningInv
  <2>2. QED
    BY <1>3, <2>1 DEF Known
<1>4. Known(sig)'
  <2>1. PICK s : s = sig'
    OBVIOUS
  <2>2. Known(s)
    <3>1. Known(Broken)
      BY DEF Known
    <3>2. QED
      BY <2>1, <3>1 DEF SigningInv
  <2>3. Known(s)'
    BY <1>3, <2>2
  <2>4. QED
    BY <2>1, <2>3 DEF Known
<1>5. ASSUME NEW k \in Job PROVE Known(job[k].buffer)'
  <2>1. PICK r : r = job'[k]
    OBVIOUS
  <2>2. Known(r.buffer)'
    <3>1. CASE k # j
      <4>1. r = job[k]
        BY <1>0, <2>1, <3>1
      <4>2. Known(r.buffer)
        BY <4>1 DEF SigningInv
      <4>3. QED
        BY <1>3, <4>2
    <3>2. CASE k = j
      <4>1. r = q
        BY <1>0, <2>1, <3>2
      <4>2. CASE q.buffer \in {Missing, sig, job[j].buffer}
        <5>1. Known(Missing)
          BY DEF Known
        <5>2. Known(r.buffer)
          BY <4>1, <4>2, <5>1 DEF SigningInv
        <5>3. QED
          BY <1>3, <4>1, <5>2
      <4>3. CASE q.task # Missing /\ q.task.cmd = "sign"
        <5>1. r.buffer \in Made'
          BY <2>1, <3>2, <4>1, <4>3 DEF Made
        <5>2. QED
          BY <4>1, <5>1 DEF Known
      <4>4. QED
        BY <4>2, <4>3
    <3>3. QED
      BY <3>1, <3>2
  <2>3. QED
    BY ONLY <2>1, <2>2 DEF Known
<1>6. ASSUME NEW k \in alone' PROVE View(job[k])'
  <2>1. CASE k = j
    BY <1>0, <1>6, <2>1 DEF View, Sight, Answer
  <2>2. CASE k # j
    <3>1. UNCHANGED files /\ k \in alone
      BY <1>6, <2>2
    <3>2. PICK r : r = job[k]
      OBVIOUS
    <3>3. View(r)
      BY <3>1, <3>2 DEF SigningInv
    <3>4. View(r)'
      BY <3>1, <3>3 DEF View, Sight, Answer, Genuine, files
    <3>5. job'[k] = r
      BY <1>0, <1>2, <2>2, <3>2
    <3>6. QED
      BY <3>4, <3>5 DEF View, Sight, Answer
  <2>3. QED
    BY <2>1, <2>2
<1>7. QED
  BY <1>1, <1>2, <1>4, <1>5, <1>6 DEF SigningInv

\* The steps that write no file.
LEMMA QuietStep ==
    ASSUME SigningInv, NEW j \in Job, NEW q, Become(j, q), q \in Local,
           UNCHANGED <<files, rewrites>>, made' \subseteq Key,
           alone' \subseteq alone \cup {j},
           job[j].task = Missing \/ q.task = job[j].task,
           job[j].task # Missing /\ job[j].task.cmd = "sign" /\ job[j].buffer # Missing
             => q.buffer = job[j].buffer,
           \/ q.buffer \in {Missing, sig, job[j].buffer}
           \/ q.task # Missing /\ q.task.cmd = "sign",
           j \in alone' => View(q)
    PROVE  SigningInv'
<1>1. FilesOK'
  BY DEF SigningInv, FilesOK, files
<1>2. UNCHANGED files /\ sig' = sig
  BY DEF files
<1>3. j \in alone' => View(q)'
  BY <1>2 DEF View, Sight, Answer, Genuine, files
<1>4. QED
  BY <1>1, <1>2, <1>3, JobStep

Same(q, r) == q.task = r.task /\ q.key = r.key /\ q.read = r.read /\ q.buffer = r.buffer

LEMMA Returned ==
    ASSUME NEW r \in Jobs, r.task \in Task, NEW ok \in BOOLEAN, NEW fault \in BOOLEAN,
           NEW freed, r.held \subseteq freed,
           r.task.cmd = "verify" /\ ok
             => r.key \in Key /\ r.buffer = Signature(r.key, r.read),
           NEW q, q = Return([r EXCEPT !.fault = fault], ok, freed)
    PROVE  /\ q \in Local
           /\ Same(q, r) /\ q.pc = "done" /\ q.ok = ok /\ q.fault = fault
<1>1. Same(q, r) /\ q.pc = "done" /\ q.ok = ok /\ q.fault = fault /\ q.held = {}
  BY DEF Return, Jobs, Same
<1>2. q \in Jobs
  BY DEF Return, Jobs, Places
<1>3. Placed(q) /\ Holding(q) /\ Keyed(q) /\ Content(q)
  BY <1>1 DEF Placed, Holding, Keyed, Content, Is, Same
<1>4. QED
  BY <1>1, <1>2, <1>3 DEF Local

LEMMA Answered ==
    ASSUME NEW r \in Jobs, r.task \in Task, NEW q \in Jobs, Same(q, r),
           q.pc = "done", q.held = {},
           r.task.cmd = "verify" /\ q.ok
             => r.key \in Key /\ r.buffer = Signature(r.key, r.read)
    PROVE  q \in Local
<1>1. Placed(q) /\ Holding(q) /\ Keyed(q) /\ Content(q)
  BY DEF Placed, Holding, Keyed, Content, Is, Same
<1>2. QED
  BY <1>1 DEF Local

LEMMA Refused ==
    ASSUME NEW r \in Jobs, r.task \in Task,
           NEW freed, r.held \subseteq freed,
           NEW q, q = Return(r, FALSE, freed)
    PROVE  /\ q \in Local
           /\ Same(q, r) /\ q.pc = "done" /\ q.ok = FALSE /\ q.fault = r.fault
<1>1. Same(q, r) /\ q.pc = "done" /\ q.ok = FALSE /\ q.fault = r.fault /\ q.held = {}
  BY DEF Return, Jobs, Same
<1>2. q \in Jobs
  BY DEF Return, Jobs, Places
<1>3. Placed(q) /\ Holding(q) /\ Keyed(q) /\ Content(q)
  BY <1>1 DEF Placed, Holding, Keyed, Content, Is, Same
<1>4. QED
  BY <1>1, <1>2, <1>3 DEF Local

LEMMA Failed ==
    ASSUME NEW r \in Jobs, r.task \in Task,
           NEW freed, r.held \subseteq freed,
           NEW q, q = Fail(r, freed)
    PROVE  /\ q \in Local
           /\ Same(q, r) /\ q.pc = "done" /\ q.ok = FALSE /\ q.fault = TRUE
<1>1. Same(q, r) /\ q.pc = "done" /\ q.ok = FALSE /\ q.fault = TRUE /\ q.held = {}
  BY DEF Fail, Return, Jobs, Same
<1>2. q \in Jobs
  BY DEF Fail, Return, Jobs, Places
<1>3. Placed(q) /\ Holding(q) /\ Keyed(q) /\ Content(q)
  BY <1>1 DEF Placed, Holding, Keyed, Content, Is, Same
<1>4. QED
  BY <1>1, <1>2, <1>3 DEF Local

LEMMA Gone ==
    ASSUME NEW r \in Jobs, NEW pc \in Places,
           NEW held \in SUBSET {"pkey", "ctx", "buffer", "file"},
           NEW q, q = Go(r, pc, held)
    PROVE  /\ q \in Jobs
           /\ Same(q, r) /\ q.pc = pc /\ q.held = held /\ q.ok = r.ok /\ q.fault = r.fault
BY DEF Go, Jobs, Same

LEMMA BegunType ==
    ASSUME NEW t \in Task
    PROVE  /\ Begun(t) \in Jobs
           /\ Begun(t).pc = "idle" /\ Begun(t).task = t /\ Begun(t).key = Missing
           /\ Begun(t).read = <<>> /\ Begun(t).buffer = Missing /\ Begun(t).held = {}
           /\ Begun(t).ok = FALSE /\ Begun(t).fault = FALSE
<1>1. Fresh \in Jobs
  BY FreshIsLocal DEF Local
<1>2. QED
  BY <1>1 DEF Begun, Fresh, Jobs

\* Nothing is known of the files but by what was read.
LEMMA FailedView ==
    ASSUME NEW q \in Local, q.pc = "done", q.fault, ~q.ok,
           \A i \in 1 .. Len(q.read) : q.read[i] = data[i]
    PROVE  View(q)
BY DEF View, Sight, Answer, Is

LEMMA FreshTask ==
    ASSUME NEW r \in Local, r.pc = "idle"
    PROVE  r.task = Missing
<1>1. Placed(r)
  BY DEF Local
<1>2. r = Fresh
  BY <1>1 DEF Placed
<1>3. QED
  BY <1>2 DEF Fresh

LEMMA LoadKeyStep ==
    ASSUME SigningInv, NEW j \in Job, NEW t \in Task, t.cmd \in {"sign", "verify"},
           NEW file, t.cmd = "sign" => file = priv, t.cmd = "verify" => file = pub,
           LoadKey(j, t, file)
    PROVE  SigningInv'
<1> USE Distinct
<1>1. /\ job[j].task = Missing
      /\ UNCHANGED <<files, rewrites>> /\ made' \subseteq Key /\ alone' \subseteq alone \cup {j}
  <2>1. job[j].task = Missing
    <3>1. job[j] \in Local /\ job[j].pc = "idle"
      BY DEF SigningInv, LoadKey
    <3>2. QED
      BY <3>1, FreshTask
  <2>2. QED
    BY <2>1 DEF SigningInv, FilesOK, LoadKey, Start
<1>b. /\ Begun(t) \in Jobs
      /\ Begun(t).pc = "idle" /\ Begun(t).task = t /\ Begun(t).key = Missing
      /\ Begun(t).read = <<>> /\ Begun(t).buffer = Missing /\ Begun(t).held = {}
      /\ Begun(t).ok = FALSE /\ Begun(t).fault = FALSE
  BY BegunType
<1>2. CASE file \in Key /\ Become(j, Go([Begun(t) EXCEPT !.key = file],
                          IF t.cmd = "sign" THEN "init" ELSE "signature", {"pkey"}))
  <2>1. PICK r : r = [Begun(t) EXCEPT !.key = file]
    OBVIOUS
  <2>2. /\ r \in Jobs /\ r.task = t /\ r.key = file /\ r.read = <<>> /\ r.buffer = Missing
        /\ r.ok = FALSE /\ r.fault = FALSE
    BY <1>2, <2>1, <1>b DEF Jobs
  <2>3. PICK pc : pc = IF t.cmd = "sign" THEN "init" ELSE "signature"
    OBVIOUS
  <2>4. PICK q : q = Go(r, pc, {"pkey"})
    OBVIOUS
  <2>5. /\ q \in Jobs /\ Same(q, r) /\ q.pc = pc /\ q.held = {"pkey"}
        /\ q.ok = FALSE /\ q.fault = FALSE
    <3>1. pc \in Places /\ {"pkey"} \in SUBSET {"pkey", "ctx", "buffer", "file"}
      BY <2>3 DEF Places
    <3>2. QED
      BY <2>2, <2>4, <3>1, Gone
  <2>6. Placed(q) /\ Holding(q) /\ Keyed(q) /\ Content(q)
    BY <1>2, <2>2, <2>3, <2>5 DEF Placed, Holding, Keyed, Content, Is, Same
  <2>7. View(q)
    BY <2>2, <2>3, <2>5, EmptyBytes DEF View, Sight, Answer, Is, Same
  <2>8. Become(j, q)
    BY <1>2, <2>1, <2>3, <2>4
  <2>9. q \in Local /\ q.buffer = Missing
    BY <2>2, <2>5, <2>6 DEF Local, Same
  <2>10. QED
    BY <1>1, <2>7, <2>8, <2>9, QuietStep
<1>3. CASE file \notin Key /\ Become(j, Return(Begun(t), FALSE, {}))
  <2>1. PICK r : r = Begun(t)
    OBVIOUS
  <2>2. PICK q : q = Return(r, FALSE, {})
    OBVIOUS
  <2>3. r \in Jobs /\ r.task \in Task /\ r.held \subseteq {} /\ r.fault = FALSE
    BY <2>1, <1>b
  <2>4. /\ q \in Local /\ Same(q, r) /\ q.pc = "done" /\ q.ok = FALSE /\ q.fault = FALSE
    BY <2>2, <2>3, Refused
  <2>5. q.task = t /\ q.read = <<>> /\ q.buffer = Missing
    BY <2>1, <2>4, <1>b DEF Same
  <2>6. View(q)
    BY <1>3, <2>4, <2>5, EmptyBytes DEF View, Sight, Answer, Is, Genuine
  <2>7. QED
    BY <1>1, <1>3, <2>1, <2>2, <2>4, <2>5, <2>6, QuietStep
<1>4. CASE Become(j, Fail(Begun(t), {}))
  <2>1. PICK r : r = Begun(t)
    OBVIOUS
  <2>2. PICK q : q = Fail(r, {})
    OBVIOUS
  <2>3. r \in Jobs /\ r.task \in Task /\ r.held \subseteq {}
    BY <2>1, <1>b
  <2>4. /\ q \in Local /\ Same(q, r) /\ q.pc = "done" /\ q.ok = FALSE /\ q.fault = TRUE
    BY <2>2, <2>3, Failed
  <2>5. q.task = t /\ q.read = <<>> /\ q.buffer = Missing
    BY <2>1, <2>4, <1>b DEF Same
  <2>6. View(q)
    BY <2>4, <2>5, EmptyBytes, FailedView
  <2>7. QED
    BY <1>1, <1>4, <2>1, <2>2, <2>4, <2>5, <2>6, QuietStep
<1>5. QED
  BY <1>2, <1>3, <1>4 DEF LoadKey

LEMMA Current ==
    ASSUME SigningInv, NEW j \in Job, NEW r, r = job[j], r.pc # "idle"
    PROVE  /\ r \in Local /\ r \in Jobs /\ Placed(r) /\ Holding(r) /\ Keyed(r) /\ Content(r)
           /\ r.task \in Task /\ r.task # Missing
           /\ j \in alone => View(r)
<1>1. r \in Local
  BY DEF SigningInv
<1>2. r \in Jobs /\ Placed(r) /\ Holding(r) /\ Keyed(r) /\ Content(r)
  BY <1>1 DEF Local
<1>3. r.task \in Task
  BY <1>2 DEF Placed
<1>4. QED
  BY <1>1, <1>2, <1>3, Distinct DEF SigningInv

\* A step that fails on an input or output, and writes nothing.
LEMMA FailStep ==
    ASSUME SigningInv, NEW j \in Job, NEW r, r = job[j], r.pc # "idle", NEW freed,
           r.held \subseteq freed, Become(j, Fail(r, freed)),
           UNCHANGED <<files, made, rewrites, alone>>
    PROVE  SigningInv'
<1>1. PICK q : q = Fail(r, freed)
  OBVIOUS
<1>2. r \in Jobs /\ r.task \in Task
  BY Current
<1>3. /\ q \in Local /\ Same(q, r) /\ q.pc = "done" /\ q.ok = FALSE /\ q.fault = TRUE
  BY <1>1, <1>2, Failed
<1>4. q.task = r.task /\ q.buffer = r.buffer /\ q.read = r.read
  BY <1>3 DEF Same
<1>5. j \in alone => \A i \in 1 .. Len(q.read) : q.read[i] = data[i]
  BY <1>4, Current DEF View, Sight
<1>6. j \in alone' => View(q)
  BY <1>3, <1>5, FailedView
<1>7. made' \subseteq Key /\ alone' \subseteq alone \cup {j} /\ UNCHANGED <<files, rewrites>>
  BY DEF SigningInv, FilesOK
<1>8. Become(j, q)
  BY <1>1
<1>9. QED
  BY <1>3, <1>4, <1>6, <1>7, <1>8, QuietStep

\* A step that gives up, or says no.
LEMMA RefuseStep ==
    ASSUME SigningInv, NEW j \in Job, NEW r, r = job[j], r.pc # "idle", NEW freed,
           r.held \subseteq freed, Become(j, Return(r, FALSE, freed)),
           UNCHANGED <<files, made, rewrites, alone>>,
           r.task.cmd # "checksum",
           j \in alone /\ ~r.fault /\ r.task.cmd = "verify" =>
             ~(Genuine /\ Type[pub] \notin OneShot /\ InitAccepts(pub, r.task))
    PROVE  SigningInv'
<1>1. PICK q : q = Return(r, FALSE, freed)
  OBVIOUS
<1>2. r \in Jobs /\ r.task \in Task
  BY Current
<1>3. /\ q \in Local /\ Same(q, r) /\ q.pc = "done" /\ q.ok = FALSE /\ q.fault = r.fault
  BY <1>1, <1>2, Refused
<1>4. q.task = r.task /\ q.buffer = r.buffer /\ q.read = r.read
  BY <1>3 DEF Same
<1>5. j \in alone => \A i \in 1 .. Len(q.read) : q.read[i] = data[i]
  BY <1>4, Current DEF View, Sight
<1>6. j \in alone' => View(q)
  BY <1>3, <1>4, <1>5 DEF View, Sight, Answer, Is
<1>7. made' \subseteq Key /\ alone' \subseteq alone \cup {j} /\ UNCHANGED <<files, rewrites>>
  BY DEF SigningInv, FilesOK
<1>8. Become(j, q)
  BY <1>1
<1>9. QED
  BY <1>3, <1>4, <1>6, <1>7, <1>8, QuietStep

LEMMA ReadSignatureStep ==
    ASSUME SigningInv, NEW j \in Job, ReadSignature(j)
    PROVE  SigningInv'
<1>1. PICK r : r = job[j]
  OBVIOUS
<1>2. r.pc = "signature" /\ r.task.cmd = "verify" /\ UNCHANGED <<files, made, rewrites, alone>>
  BY <1>1 DEF ReadSignature, At
<1>3. /\ r \in Jobs /\ Placed(r) /\ Holding(r) /\ Keyed(r) /\ Content(r)
      /\ r.task \in Task /\ (j \in alone => View(r))
  BY <1>1, <1>2, Current
<1>4. r.held \subseteq {"pkey"} /\ r.key \in Key /\ r.read = <<>>
  BY <1>2, <1>3 DEF Holding, Keyed, Content
<1>5. CASE sig # Missing
           /\ Become(j, Go([r EXCEPT !.buffer = sig], "init", {"pkey", "buffer"}))
  <2>1. PICK b : b = [r EXCEPT !.buffer = sig]
    OBVIOUS
  <2>2. /\ b \in Jobs /\ b.task = r.task /\ b.key = r.key /\ b.read = r.read
        /\ b.buffer = sig /\ b.fault = r.fault
    <3>1. sig \in {Missing, Broken} \cup Signatures
      BY DEF SigningInv, FilesOK
    <3>2. QED
      BY <1>3, <2>1, <3>1 DEF Jobs
  <2>3. PICK q : q = Go(b, "init", {"pkey", "buffer"})
    OBVIOUS
  <2>4. /\ q \in Jobs /\ Same(q, b) /\ q.pc = "init" /\ q.held = {"pkey", "buffer"}
        /\ q.fault = r.fault
    <3>1. "init" \in Places /\ {"pkey", "buffer"} \in SUBSET {"pkey", "ctx", "buffer", "file"}
      BY DEF Places
    <3>2. QED
      BY <2>2, <2>3, <3>1, Gone
  <2>5. q.task = r.task /\ q.key = r.key /\ q.read = <<>> /\ q.buffer = sig
    BY <1>4, <2>2, <2>4 DEF Same
  <2>6. Placed(q) /\ Holding(q) /\ Keyed(q) /\ Content(q)
    BY <1>2, <1>3, <1>4, <2>4, <2>5 DEF Placed, Holding, Keyed, Content, Is
  <2>7. j \in alone => View(q)
    BY <1>2, <1>3, <2>4, <2>5, EmptyBytes DEF View, Sight, Answer, Is
  <2>8. made' \subseteq Key /\ alone' = alone /\ UNCHANGED <<files, rewrites>>
    BY <1>2 DEF SigningInv, FilesOK
  <2>9. Become(j, q) /\ q \in Local
    BY <1>1, <1>5, <2>1, <2>3, <2>4, <2>6 DEF Local
  <2>10. QED
    BY <1>1, <1>2, <2>5, <2>7, <2>8, <2>9, QuietStep
<1>6. CASE sig = Missing /\ Become(j, Return(r, FALSE, {"pkey"}))
  <2>1. ~Genuine
    <3>1. pub \in Key => sig # Signature(pub, data)
      <4>1. data \in Bytes
        BY SigningAssumption DEF SigningInv, FilesOK, Bytes
      <4>2. QED
        BY <1>3, <1>6, <4>1, SignatureType
    <3>2. QED
      BY <3>1 DEF Genuine
  <2>2. QED
    BY <1>1, <1>2, <1>4, <1>6, <2>1, RefuseStep
<1>7. CASE Become(j, Fail(r, {"pkey"}))
  BY <1>1, <1>2, <1>4, <1>7, FailStep
<1>8. QED
  BY <1>1, <1>5, <1>6, <1>7 DEF ReadSignature

LEMMA InitDigestStep ==
    ASSUME SigningInv, NEW j \in Job, InitDigest(j)
    PROVE  SigningInv'
<1>1. PICK r : r = job[j]
  OBVIOUS
<1>2. r.pc = "init" /\ UNCHANGED <<files, made, rewrites, alone>>
  BY <1>1 DEF InitDigest
<1>3. /\ r \in Jobs /\ Placed(r) /\ Holding(r) /\ Keyed(r) /\ Content(r)
      /\ r.task \in Task /\ (j \in alone => View(r)) /\ r.task # Missing
  BY <1>1, <1>2, Current
<1>4. /\ r.held \in SUBSET {"pkey", "ctx", "buffer", "file"} /\ "file" \notin r.held
      /\ r.key \in Key /\ r.read = <<>> /\ r.task.cmd \in {"sign", "verify"}
  BY <1>2, <1>3 DEF Jobs, Placed, Holding, Keyed, Content
<1>5. CASE InitAccepts(r.key, r.task) /\ Become(j, Go(r, "open", r.held \cup {"ctx"}))
  <2>1. PICK h : h = r.held \cup {"ctx"}
    OBVIOUS
  <2>2. PICK q : q = Go(r, "open", h)
    OBVIOUS
  <2>3. /\ q \in Jobs /\ Same(q, r) /\ q.pc = "open" /\ q.held = h /\ q.fault = r.fault
        /\ q.ok = r.ok
    <3>1. "open" \in Places /\ h \in SUBSET {"pkey", "ctx", "buffer", "file"}
      BY <1>4, <2>1 DEF Places
    <3>2. QED
      BY <1>3, <2>2, <3>1, Gone
  <2>4. q.task = r.task /\ q.key = r.key /\ q.read = <<>> /\ q.buffer = r.buffer
    BY <1>4, <2>3 DEF Same
  <2>5. Placed(q) /\ Holding(q)
    BY <1>2, <1>3, <1>4, <2>1, <2>3, <2>4 DEF Placed, Holding
  <2>6. Keyed(q) /\ Content(q)
    BY <1>2, <1>3, <1>4, <1>5, <2>3, <2>4 DEF Keyed, Content, Is
  <2>7. j \in alone => View(q)
    BY <1>2, <1>3, <1>4, <2>3, <2>4, EmptyBytes DEF View, Sight, Answer, Is
  <2>8. made' \subseteq Key /\ alone' = alone /\ UNCHANGED <<files, rewrites>>
    BY <1>2 DEF SigningInv, FilesOK
  <2>9. Become(j, q) /\ q \in Local
    BY <1>1, <1>5, <2>1, <2>2, <2>3, <2>5, <2>6 DEF Local
  <2>10. QED
    BY <1>1, <1>2, <2>4, <2>7, <2>8, <2>9, QuietStep
<1>6. CASE ~InitAccepts(r.key, r.task) /\ Become(j, Return(r, FALSE, {"buffer", "ctx", "pkey"}))
  <2>1. r.held \subseteq {"buffer", "ctx", "pkey"} /\ r.task.cmd # "checksum"
    BY <1>4
  <2>2. j \in alone /\ r.task.cmd = "verify" => ~InitAccepts(pub, r.task)
    BY <1>2, <1>3, <1>6 DEF View, Sight, Is
  <2>3. QED
    BY <1>1, <1>2, <1>6, <2>1, <2>2, RefuseStep
<1>7. CASE Become(j, Fail(r, {"buffer", "ctx", "pkey"}))
  <2>1. r.held \subseteq {"buffer", "ctx", "pkey"} /\ r.pc # "idle"
    BY <1>2, <1>4
  <2>2. QED
    BY <1>1, <1>2, <1>7, <2>1, FailStep
<1>8. QED
  BY <1>1, <1>5, <1>6, <1>7 DEF InitDigest

LEMMA OpenDataStep ==
    ASSUME SigningInv, NEW j \in Job, OpenData(j)
    PROVE  SigningInv'
<1>1. PICK r : r = job[j]
  OBVIOUS
<1>2. r.pc = "open" /\ UNCHANGED <<files, made, rewrites, alone>>
  BY <1>1 DEF OpenData
<1>3. /\ r \in Jobs /\ Placed(r) /\ Holding(r) /\ Keyed(r) /\ Content(r)
      /\ r.task \in Task /\ (j \in alone => View(r)) /\ r.task # Missing
  BY <1>1, <1>2, Current
<1>4. /\ r.held \in SUBSET {"pkey", "ctx", "buffer", "file"} /\ "file" \notin r.held
      /\ r.key \in Key /\ r.read = <<>> /\ r.task.cmd \in {"sign", "verify"}
      /\ InitAccepts(r.key, r.task)
  BY <1>2, <1>3 DEF Jobs, Placed, Holding, Keyed, Content
<1>5. CASE Become(j, Go(r, "read", r.held \cup {"file"}))
  <2>1. PICK h : h = r.held \cup {"file"}
    OBVIOUS
  <2>2. PICK q : q = Go(r, "read", h)
    OBVIOUS
  <2>3. /\ q \in Jobs /\ Same(q, r) /\ q.pc = "read" /\ q.held = h /\ q.fault = r.fault
        /\ q.ok = r.ok
    <3>1. "read" \in Places /\ h \in SUBSET {"pkey", "ctx", "buffer", "file"}
      BY <1>4, <2>1 DEF Places
    <3>2. QED
      BY <1>3, <2>2, <3>1, Gone
  <2>4. q.task = r.task /\ q.key = r.key /\ q.read = <<>> /\ q.buffer = r.buffer
    BY <1>4, <2>3 DEF Same
  <2>5. Placed(q) /\ Holding(q)
    BY <1>2, <1>3, <1>4, <2>1, <2>3, <2>4 DEF Placed, Holding
  <2>6. Keyed(q) /\ Content(q)
    BY <1>2, <1>3, <1>4, <1>5, <2>3, <2>4, EmptyBytes DEF Keyed, Content, Is
  <2>7. j \in alone => View(q)
    BY <1>2, <1>3, <1>4, <2>3, <2>4, EmptyBytes DEF View, Sight, Answer, Is
  <2>8. made' \subseteq Key /\ alone' = alone /\ UNCHANGED <<files, rewrites>>
    BY <1>2 DEF SigningInv, FilesOK
  <2>9. Become(j, q) /\ q \in Local
    BY <1>1, <1>5, <2>1, <2>2, <2>3, <2>5, <2>6 DEF Local
  <2>10. QED
    BY <1>1, <1>2, <2>4, <2>7, <2>8, <2>9, QuietStep
<1>6. CASE Become(j, Fail(r, {"buffer", "ctx", "pkey"}))
  <2>1. r.held \subseteq {"buffer", "ctx", "pkey"} /\ r.pc # "idle"
    BY <1>2, <1>4
  <2>2. QED
    BY <1>1, <1>2, <1>6, <2>1, FailStep
<1>7. QED
  BY <1>1, <1>5, <1>6 DEF OpenData

\* A process that begins, and fails at once.
LEMMA FailedToBegin ==
    ASSUME SigningInv, NEW j \in Job, NEW t \in Task, job[j].pc = "idle",
           Become(j, Fail(Begun(t), {})), UNCHANGED <<files, rewrites, made>>,
           alone' = alone \cup {j}
    PROVE  SigningInv'
<1>1. job[j].task = Missing
  <2>1. job[j] \in Local
    BY DEF SigningInv
  <2>2. QED
    BY <2>1, FreshTask
<1>2. PICK r : r = Begun(t)
  OBVIOUS
<1>3. /\ r \in Jobs /\ r.task = t /\ r.read = <<>> /\ r.buffer = Missing
      /\ r.held \subseteq {} /\ r.task \in Task
  BY <1>2, BegunType
<1>4. PICK q : q = Fail(r, {})
  OBVIOUS
<1>5. /\ q \in Local /\ Same(q, r) /\ q.pc = "done" /\ q.ok = FALSE /\ q.fault = TRUE
  <2>1. r \in Jobs /\ r.task \in Task /\ r.held \subseteq {}
    BY <1>3
  <2>2. QED
    BY ONLY <1>4, <2>1, Failed
<1>6. q.task = t /\ q.read = <<>> /\ q.buffer = Missing
  BY <1>3, <1>5 DEF Same
<1>7. View(q)
  BY <1>5, <1>6, EmptyBytes, FailedView
<1>8. made' \subseteq Key
  BY DEF SigningInv, FilesOK
<1>9. QED
  BY <1>1, <1>2, <1>4, <1>5, <1>6, <1>7, <1>8, QuietStep

LEMMA ChecksumStep ==
    ASSUME SigningInv, NEW j \in Job, NEW t \in Task, Checksum(j, t)
    PROVE  SigningInv'
<1>1. job[j].task = Missing
  <2>1. job[j] \in Local /\ job[j].pc = "idle"
    BY DEF SigningInv, Checksum
  <2>2. QED
    BY <2>1, FreshTask
<1>2. PICK r : r = Begun(t)
  OBVIOUS
<1>3. /\ r \in Jobs /\ r.task = t /\ r.key = Missing /\ r.read = <<>> /\ r.buffer = Missing
      /\ r.ok = FALSE /\ r.fault = FALSE /\ r.held = {}
  BY <1>2, BegunType
<1>4. t.cmd = "checksum" /\ UNCHANGED <<files, rewrites, made>> /\ alone' = alone \cup {j}
      /\ made' \subseteq Key
  BY DEF Checksum, Start, SigningInv, FilesOK
<1>5. CASE Become(j, Go(r, "read", {"file", "ctx"}))
  <2>1. PICK q : q = Go(r, "read", {"file", "ctx"})
    OBVIOUS
  <2>2. /\ q \in Jobs /\ Same(q, r) /\ q.pc = "read" /\ q.held = {"file", "ctx"}
        /\ q.fault = FALSE
    <3>1. "read" \in Places /\ {"file", "ctx"} \in SUBSET {"pkey", "ctx", "buffer", "file"}
      BY DEF Places
    <3>2. QED
      BY <1>3, <2>1, <3>1, Gone
  <2>3. q.task = t /\ q.key = Missing /\ q.read = <<>> /\ q.buffer = Missing
    BY <1>3, <2>2 DEF Same
  <2>4. Placed(q) /\ Holding(q) /\ Keyed(q) /\ Content(q)
    BY <1>4, <2>2, <2>3 DEF Placed, Holding, Keyed, Content, Is
  <2>5. View(q)
    BY <1>4, <2>2, <2>3, EmptyBytes DEF View, Sight, Answer, Is
  <2>6. Become(j, q) /\ q \in Local
    BY <1>5, <2>1, <2>2, <2>4 DEF Local
  <2>7. QED
    BY <1>1, <1>4, <2>3, <2>5, <2>6, QuietStep
<1>6. CASE Become(j, Fail(Begun(t), {}))
  <2>1. job[j].pc = "idle"
    BY DEF Checksum
  <2>2. QED
    BY <1>4, <1>6, <2>1, FailedToBegin
<1>7. ASSUME NEW h \in SUBSET {"pkey", "ctx", "buffer", "file"}, NEW freed, h \subseteq freed,
             Become(j, Fail([r EXCEPT !.held = h], freed))
      PROVE  SigningInv'
  <2>1. PICK o : o = [r EXCEPT !.held = h]
    OBVIOUS
  <2>2. /\ o \in Jobs /\ o.task = t /\ o.read = <<>> /\ o.buffer = Missing /\ o.held = h
    BY <1>3, <2>1 DEF Jobs
  <2>3. PICK q : q = Fail(o, freed)
    OBVIOUS
  <2>4. /\ q \in Local /\ Same(q, o) /\ q.pc = "done" /\ q.ok = FALSE /\ q.fault = TRUE
    BY ONLY <1>7, <2>2, <2>3, Failed, t \in Task
  <2>5. q.task = t /\ q.read = <<>> /\ q.buffer = Missing
    BY <2>2, <2>4 DEF Same
  <2>6. View(q)
    BY <2>4, <2>5, EmptyBytes, FailedView
  <2>7. Become(j, q)
    BY <1>7, <2>1, <2>3
  <2>8. QED
    BY <1>1, <1>4, <2>4, <2>5, <2>6, <2>7, QuietStep
<1>8. CASE Become(j, Fail([r EXCEPT !.held = {"file"}], {"file"}))
  BY <1>7, <1>8
<1>9. CASE Become(j, Fail([r EXCEPT !.held = {"file", "ctx"}], {"ctx", "file"}))
  BY <1>7, <1>9
<1>10. QED
  BY <1>2, <1>5, <1>6, <1>8, <1>9 DEF Checksum

LEMMA KeygenStep ==
    ASSUME SigningInv, NEW j \in Job, NEW t \in Task, Keygen(j, t)
    PROVE  SigningInv'
<1>1. job[j].task = Missing /\ job[j].pc = "idle"
  <2>1. job[j] \in Local /\ job[j].pc = "idle"
    BY DEF SigningInv, Keygen
  <2>2. QED
    BY <2>1, FreshTask
<1>2. t.cmd = "keygen" /\ UNCHANGED <<files, rewrites>> /\ alone' = alone \cup {j}
  BY DEF Keygen, Start
<1>3. ASSUME NEW k \in Key, made' = made \cup {k},
             Become(j, Go([Begun(t) EXCEPT !.key = k], "private", {"pkey"}))
      PROVE  SigningInv'
  <2>1. PICK r : r = [Begun(t) EXCEPT !.key = k]
    OBVIOUS
  <2>2. /\ Begun(t) \in Jobs /\ Begun(t).task = t /\ Begun(t).read = <<>>
        /\ Begun(t).buffer = Missing /\ Begun(t).fault = FALSE
    BY BegunType
  <2>3. /\ r \in Jobs /\ r.task = t /\ r.key = k /\ r.read = <<>> /\ r.buffer = Missing
        /\ r.fault = FALSE
    BY <2>1, <2>2 DEF Jobs
  <2>4. PICK q : q = Go(r, "private", {"pkey"})
    OBVIOUS
  <2>5. /\ q \in Jobs /\ Same(q, r) /\ q.pc = "private" /\ q.held = {"pkey"}
    <3>1. "private" \in Places /\ {"pkey"} \in SUBSET {"pkey", "ctx", "buffer", "file"}
      BY DEF Places
    <3>2. QED
      BY <2>3, <2>4, <3>1, Gone
  <2>6. q.task = t /\ q.key = k /\ q.read = <<>> /\ q.buffer = Missing
    BY <2>3, <2>5 DEF Same
  <2>7. Placed(q) /\ Holding(q) /\ Keyed(q) /\ Content(q)
    BY <1>2, <2>5, <2>6 DEF Placed, Holding, Keyed, Content, Is
  <2>8. View(q)
    BY <1>2, <2>5, <2>6, EmptyBytes DEF View, Sight, Answer, Is
  <2>9. Become(j, q) /\ q \in Local /\ made' \subseteq Key
    BY <1>3, <2>1, <2>4, <2>5, <2>7 DEF Local, SigningInv, FilesOK
  <2>10. QED
    BY <1>1, <1>2, <2>6, <2>8, <2>9, QuietStep
<1>4. CASE UNCHANGED made /\ Become(j, Fail(Begun(t), {}))
  BY <1>1, <1>2, <1>4, FailedToBegin
<1>5. QED
  BY <1>3, <1>4 DEF Keygen

LEMMA KilledStep ==
    ASSUME SigningInv, NEW j \in Job, Killed(j)
    PROVE  SigningInv'
<1>1. PICK r : r = job[j]
  OBVIOUS
<1>2. r.pc \notin {"idle", "done", "killed"} /\ UNCHANGED <<files, made, rewrites, alone>>
  BY <1>1 DEF Killed
<1>3. /\ r \in Jobs /\ r.task \in Task /\ (j \in alone => View(r))
  BY <1>1, <1>2, Current
<1>4. PICK q : q = [r EXCEPT !.pc = "killed", !.held = {}]
  OBVIOUS
<1>5. /\ q \in Jobs /\ q.task = r.task /\ q.buffer = r.buffer /\ q.read = r.read
      /\ q.pc = "killed" /\ q.held = {}
  BY <1>3, <1>4 DEF Jobs, Places
<1>6. Placed(q) /\ Holding(q) /\ Keyed(q) /\ Content(q)
  BY <1>3, <1>5 DEF Placed, Holding, Keyed, Content, Is
<1>7. j \in alone => View(q)
  BY <1>3, <1>5 DEF View, Sight, Answer, Is
<1>8. made' \subseteq Key /\ alone' = alone /\ UNCHANGED <<files, rewrites>>
  BY <1>2 DEF SigningInv, FilesOK
<1>9. Become(j, q) /\ q \in Local
  BY <1>1, <1>4, <1>5, <1>6 DEF Local, Killed
<1>10. QED
  BY <1>1, <1>5, <1>7, <1>8, <1>9, QuietStep

LEMMA ReadPieceStep ==
    ASSUME SigningInv, NEW j \in Job, ReadPiece(j)
    PROVE  SigningInv'
<1>1. PICK r : r = job[j]
  OBVIOUS
<1>2. r.pc = "read" /\ UNCHANGED <<files, made, rewrites, alone>>
  BY <1>1 DEF ReadPiece
<1>3. /\ r \in Jobs /\ Placed(r) /\ Holding(r) /\ Keyed(r) /\ Content(r)
      /\ r.task \in Task /\ (j \in alone => View(r)) /\ r.task # Missing
  BY <1>1, <1>2, Current
<1>4. /\ r.held \in SUBSET {"pkey", "ctx", "buffer", "file"}
      /\ r.read \in Bytes /\ r.task.cmd \in {"sign", "verify", "checksum"}
      /\ r.task.cmd # "checksum" => r.key \in Key /\ InitAccepts(r.key, r.task)
      /\ r.task.cmd = "checksum" => r.key \notin Key
  BY <1>2, <1>3, Distinct DEF Jobs, Placed, Keyed
<1>5. made' \subseteq Key /\ alone' = alone /\ UNCHANGED <<files, rewrites>>
  BY <1>2 DEF SigningInv, FilesOK
<1>6. CASE /\ r.key \in Key /\ Type[r.key] \in OneShot
           /\ Become(j, Return(r, FALSE, {"file", "buffer", "ctx", "pkey"}))
  <2>1. r.task.cmd # "checksum" /\ r.held \subseteq {"file", "buffer", "ctx", "pkey"}
    BY <1>4, <1>6
  <2>2. j \in alone /\ r.task.cmd = "verify" => r.key = pub
    BY <1>2, <1>3 DEF View, Sight, Is
  <2>3. r.pc # "idle"
    BY <1>2
  <2>4. QED
    BY <1>1, <1>2, <1>6, <2>1, <2>2, <2>3, RefuseStep
<1>7. CASE /\ Len(r.read) < Chunks /\ ~(r.key \in Key /\ Type[r.key] \in OneShot)
           /\ Become(j, [r EXCEPT !.read = Append(@, data[Len(@) + 1])])
  <2>1. PICK v : v = data[Len(r.read) + 1]
    OBVIOUS
  <2>2. Len(r.read) \in 0 .. Chunks
    BY <1>4, BytesProperties
  <2>3. v \in Version
    <3>1. Len(r.read) + 1 \in 1 .. Chunks
      BY <1>7, <2>2, SigningAssumption
    <3>2. QED
      BY <2>1, <3>1 DEF SigningInv, FilesOK
  <2>4. PICK s : s = Append(r.read, v)
    OBVIOUS
  <2>5. /\ s \in Bytes /\ Len(s) = Len(r.read) + 1
        /\ \A i \in 1 .. Len(r.read) : s[i] = r.read[i]
        /\ s[Len(r.read) + 1] = v
    BY <1>4, <1>7, <2>3, <2>4, MoreBytes
  <2>6. PICK q : q = [r EXCEPT !.read = s]
    OBVIOUS
  <2>7. /\ q \in Jobs /\ q.task = r.task /\ q.key = r.key /\ q.read = s
        /\ q.buffer = r.buffer /\ q.pc = "read" /\ q.held = r.held /\ q.fault = r.fault
    BY <1>2, <1>3, <2>5, <2>6 DEF Jobs
  <2>8. Placed(q) /\ Holding(q)
    BY <1>2, <1>3, <2>7 DEF Placed, Holding
  <2>9. Keyed(q) /\ Content(q)
    BY <1>2, <1>3, <1>4, <1>7, <2>7 DEF Keyed, Content, Is
  <2>10. j \in alone => View(q)
    <3>1. ASSUME j \in alone PROVE \A i \in 1 .. Len(q.read) : q.read[i] = data[i]
      <4>1. \A i \in 1 .. Len(r.read) : r.read[i] = data[i]
        BY <1>3, <3>1 DEF View, Sight
      <4>2. QED
        BY <2>1, <2>2, <2>5, <2>7, <4>1
    <3>2. QED
      BY <1>2, <1>3, <2>7, <3>1 DEF View, Sight, Answer, Is
  <2>11. Become(j, q) /\ q \in Local
    BY <1>1, <1>7, <2>1, <2>4, <2>6, <2>7, <2>8, <2>9 DEF Local
  <2>12. QED
    BY <1>1, <1>3, <1>5, <2>7, <2>10, <2>11, QuietStep
<1>8. ASSUME NEW fault \in BOOLEAN, ~fault /\ ~r.fault => Len(r.read) = Chunks,
             Become(j, [Go(r, "final", r.held \ (IF r.task.cmd = "checksum" THEN {}
                                                ELSE {"file"}))
                          EXCEPT !.fault = r.fault \/ fault])
      PROVE  SigningInv'
  <2>1. PICK h : h = r.held \ (IF r.task.cmd = "checksum" THEN {} ELSE {"file"})
    OBVIOUS
  <2>2. PICK g : g = Go(r, "final", h)
    OBVIOUS
  <2>3. /\ g \in Jobs /\ Same(g, r) /\ g.pc = "final" /\ g.held = h
    <3>1. "final" \in Places
      BY DEF Places
    <3>2. r \in Jobs /\ h \in SUBSET {"pkey", "ctx", "buffer", "file"}
      BY <1>3, <1>4, <2>1
    <3>3. QED
      BY <2>2, <3>1, <3>2, Gone
  <2>4. PICK f \in BOOLEAN : f = (r.fault \/ fault)
    BY <1>8
  <2>5. PICK q : q = [g EXCEPT !.fault = f]
    OBVIOUS
  <2>6. /\ q \in Jobs /\ q.task = r.task /\ q.key = r.key /\ q.read = r.read
        /\ q.buffer = r.buffer /\ q.pc = "final" /\ q.held = h /\ q.fault = f
    BY <2>3, <2>5 DEF Jobs, Same
  <2>7. Placed(q) /\ Holding(q)
    BY <1>2, <1>3, <1>4, <2>1, <2>6 DEF Placed, Holding
  <2>8. Keyed(q) /\ Content(q)
    BY <1>2, <1>3, <1>4, <1>8, <2>4, <2>6 DEF Keyed, Content, Is
  <2>9. j \in alone => View(q)
    BY <1>2, <1>3, <2>6 DEF View, Sight, Answer, Is
  <2>10. Become(j, q) /\ q \in Local
    BY <1>1, <1>8, <2>1, <2>2, <2>4, <2>5, <2>6, <2>7, <2>8 DEF Local
  <2>11. QED
    BY <1>1, <1>3, <1>5, <2>6, <2>9, <2>10, QuietStep
<1>9. PICK last : last = Go(r, "final", r.held \ (IF r.task.cmd = "checksum" THEN {}
                                                 ELSE {"file"}))
  OBVIOUS
<1>10. last \in Jobs /\ last.fault = r.fault /\ r.fault \in BOOLEAN
  <2>1. "final" \in Places
    BY DEF Places
  <2>2. last \in Jobs /\ last.fault = r.fault
    BY <1>3, <1>4, <1>9, <2>1 DEF Go, Jobs
  <2>3. QED
    BY <1>3, <2>2 DEF Jobs
<1>11. CASE Len(r.read) = Chunks /\ Become(j, last)
  <2>1. [last EXCEPT !.fault = r.fault \/ FALSE] = last
    BY <1>10 DEF Jobs
  <2>2. QED
    BY <1>8, <1>9, <1>11, <2>1
<1>12. CASE Become(j, [last EXCEPT !.fault = TRUE])
  <2>1. [last EXCEPT !.fault = r.fault \/ TRUE] = [last EXCEPT !.fault = TRUE]
    OBVIOUS
  <2>2. QED
    BY <1>8, <1>9, <1>12, <2>1
<1>13. CASE Become(j, Fail(r, {"file", "buffer", "ctx", "pkey"}))
  <2>1. r.held \subseteq {"file", "buffer", "ctx", "pkey"} /\ r.pc # "idle"
    BY <1>2, <1>4
  <2>2. QED
    BY <1>1, <1>2, <1>13, <2>1, FailStep
<1>14. QED
  BY <1>1, <1>6, <1>7, <1>9, <1>11, <1>12, <1>13 DEF ReadPiece

\* At the end of a reading without fault, the bytes are the file.
LEMMA WholeFile ==
    ASSUME SigningInv, NEW j \in alone, NEW r, r = job[j], Len(r.read) = Chunks,
           r.pc # "idle"
    PROVE  r.read = data
<1>1. r \in Jobs /\ View(r)
  <2>1. j \in Job
    BY DEF SigningInv
  <2>2. QED
    BY <2>1, Current
<1>2. r.read \in Bytes /\ \A i \in 1 .. Len(r.read) : r.read[i] = data[i]
  BY <1>1 DEF Jobs, View, Sight
<1>3. data \in [1 .. Chunks -> Version]
  BY DEF SigningInv, FilesOK
<1>4. QED
  BY <1>2, <1>3, AllBytes

LEMMA VerifyFinalStep ==
    ASSUME SigningInv, NEW j \in Job, VerifyFinal(j)
    PROVE  SigningInv'
<1>1. PICK r : r = job[j]
  OBVIOUS
<1>2. r.pc = "final" /\ r.task.cmd = "verify" /\ UNCHANGED <<files, made, rewrites, alone>>
  BY <1>1 DEF VerifyFinal, At
<1>3. /\ r \in Jobs /\ Placed(r) /\ Holding(r) /\ Keyed(r) /\ Content(r)
      /\ r.task \in Task /\ (j \in alone => View(r)) /\ r.task # Missing
  BY <1>1, <1>2, Current
<1>4. /\ r.held \subseteq {"buffer", "ctx", "pkey"}
      /\ r.key \in Key /\ InitAccepts(r.key, r.task)
  BY <1>2, <1>3 DEF Jobs, Holding, Keyed
<1>5. PICK ok \in BOOLEAN :
        ok = (/\ Type[r.key] \notin OneShot
              /\ r.buffer = Signature(r.key, r.read))
  OBVIOUS
<1>6. PICK q : q = Return(r, ok, {"buffer", "ctx", "pkey"})
  OBVIOUS
<1>7. /\ q \in Local /\ Same(q, r) /\ q.pc = "done" /\ q.ok = ok /\ q.fault = r.fault
  <2>1. r \in Jobs /\ r.task \in Task /\ r.held \subseteq {"buffer", "ctx", "pkey"}
    BY <1>3, <1>4
  <2>2. /\ q \in Jobs /\ Same(q, r) /\ q.pc = "done" /\ q.ok = ok /\ q.fault = r.fault
        /\ q.held = {}
    BY <1>6, <2>1 DEF Return, Jobs, Places, Same
  <2>3. q.ok => r.key \in Key /\ r.buffer = Signature(r.key, r.read)
    BY <1>4, <1>5, <2>2
  <2>4. QED
    BY <2>1, <2>2, <2>3, Answered
<1>8. q.task = r.task /\ q.key = r.key /\ q.read = r.read /\ q.buffer = r.buffer
  BY <1>7 DEF Same
<1>9. j \in alone => View(q)
  <2>1. SUFFICES ASSUME j \in alone PROVE View(q)
    OBVIOUS
  <2>2. Sight(q)
    BY <1>2, <1>3, <1>7, <1>8, <2>1 DEF View, Sight, Is
  <2>3. r.key = pub /\ r.buffer = sig
    BY <1>2, <1>3, <2>1 DEF View, Sight, Is
  <2>4. ~r.fault => r.read = data
    <3>1. ~r.fault => Len(r.read) = Chunks
      BY <1>2, <1>3 DEF Content
    <3>2. QED
      BY <1>1, <1>2, <2>1, <3>1, WholeFile
  <2>5. ~r.fault => (ok <=> Genuine /\ Type[pub] \notin OneShot
                            /\ InitAccepts(pub, r.task))
    BY <1>4, <1>5, <2>3, <2>4 DEF Genuine
  <2>6. Answer(q)
    BY <1>2, <1>7, <1>8, <2>5 DEF Answer, Is
  <2>7. QED
    BY <2>2, <2>6 DEF View
<1>10. made' \subseteq Key /\ alone' = alone /\ UNCHANGED <<files, rewrites>>
  BY <1>2 DEF SigningInv, FilesOK
<1>11. CASE Become(j, q)
  BY <1>1, <1>3, <1>7, <1>8, <1>9, <1>10, <1>11, QuietStep
<1>12. CASE Become(j, Fail(r, {"buffer", "ctx", "pkey"}))
  BY <1>1, <1>2, <1>4, <1>12, FailStep
<1>13. QED
  BY <1>1, <1>5, <1>6, <1>11, <1>12 DEF VerifyFinal

LEMMA ChecksumFinalStep ==
    ASSUME SigningInv, NEW j \in Job, ChecksumFinal(j)
    PROVE  SigningInv'
<1>1. PICK r : r = job[j]
  OBVIOUS
<1>2. r.pc = "final" /\ r.task.cmd = "checksum" /\ UNCHANGED <<files, made, rewrites, alone>>
  BY <1>1 DEF ChecksumFinal, At
<1>3. /\ r \in Jobs /\ Placed(r) /\ Holding(r) /\ Keyed(r) /\ Content(r)
      /\ r.task \in Task /\ (j \in alone => View(r)) /\ r.task # Missing
  BY <1>1, <1>2, Current
<1>4. r.held \subseteq {"ctx", "file"}
  BY <1>2, <1>3 DEF Holding
<1>5. PICK ok \in BOOLEAN : ok = (r.read = Original)
  OBVIOUS
<1>6. PICK q : q = Return(r, ok, {"ctx", "file"})
  OBVIOUS
<1>7. /\ q \in Local /\ Same(q, r) /\ q.pc = "done" /\ q.ok = ok /\ q.fault = r.fault
  <2>1. r \in Jobs /\ r.task \in Task /\ r.held \subseteq {"ctx", "file"}
    BY <1>3, <1>4
  <2>2. /\ q \in Jobs /\ Same(q, r) /\ q.pc = "done" /\ q.ok = ok /\ q.fault = r.fault
        /\ q.held = {}
    BY <1>6, <2>1 DEF Return, Jobs, Places, Same
  <2>3. r.task.cmd # "verify"
    BY <1>2
  <2>4. QED
    BY <2>1, <2>2, <2>3, Answered
<1>8. q.task = r.task /\ q.key = r.key /\ q.read = r.read /\ q.buffer = r.buffer
  BY <1>7 DEF Same
<1>9. j \in alone => View(q)
  <2>1. SUFFICES ASSUME j \in alone PROVE View(q)
    OBVIOUS
  <2>2. Sight(q)
    BY <1>2, <1>3, <1>7, <1>8, <2>1 DEF View, Sight, Is
  <2>3. ~r.fault => r.read = data
    <3>1. ~r.fault => Len(r.read) = Chunks
      BY <1>2, <1>3 DEF Content
    <3>2. QED
      BY <1>1, <1>2, <2>1, <3>1, WholeFile
  <2>4. ~r.fault => (ok <=> data = Original)
    BY <1>5, <2>3
  <2>5. Answer(q)
    BY <1>2, <1>7, <1>8, <2>4 DEF Answer, Is
  <2>6. QED
    BY <2>2, <2>5 DEF View
<1>10. made' \subseteq Key /\ alone' = alone /\ UNCHANGED <<files, rewrites>>
  BY <1>2 DEF SigningInv, FilesOK
<1>11. CASE Become(j, q)
  BY <1>1, <1>3, <1>7, <1>8, <1>9, <1>10, <1>11, QuietStep
<1>12. CASE Become(j, Fail(r, {"ctx", "file"}))
  BY <1>1, <1>2, <1>4, <1>12, FailStep
<1>13. QED
  BY <1>1, <1>5, <1>6, <1>11, <1>12 DEF ChecksumFinal

LEMMA SignFinalStep ==
    ASSUME SigningInv, NEW j \in Job, SignFinal(j)
    PROVE  SigningInv'
<1>1. PICK r : r = job[j]
  OBVIOUS
<1>2. r.pc = "final" /\ r.task.cmd = "sign" /\ UNCHANGED <<files, made, rewrites, alone>>
  BY <1>1 DEF SignFinal, At
<1>3. /\ r \in Jobs /\ Placed(r) /\ Holding(r) /\ Keyed(r) /\ Content(r)
      /\ r.task \in Task /\ (j \in alone => View(r)) /\ r.task # Missing
  BY <1>1, <1>2, Current
<1>4. /\ r.held \in SUBSET {"pkey", "ctx", "buffer", "file"}
      /\ r.held \subseteq {"ctx", "pkey"} /\ r.key \in Key
      /\ r.read \in Bytes /\ r.buffer = Missing
  BY <1>2, <1>3 DEF Jobs, Holding, Keyed, Content, Is
<1>5. CASE Type[r.key] \in OneShot /\ Become(j, Return(r, FALSE, {"ctx", "pkey"}))
  <2>1. r.pc # "idle" /\ r.task.cmd # "checksum" /\ r.task.cmd # "verify"
    BY <1>2
  <2>2. QED
    BY <1>1, <1>2, <1>4, <1>5, <2>1, RefuseStep
<1>6. CASE Become(j, Go([r EXCEPT !.buffer = Signature(r.key, r.read)],
                        "create", r.held \cup {"buffer"}))
  <2>1. PICK s \in Signatures : s = Signature(r.key, r.read)
    BY <1>3, <1>4, SignatureType
  <2>2. PICK b : b = [r EXCEPT !.buffer = s]
    OBVIOUS
  <2>3. /\ b \in Jobs /\ b.task = r.task /\ b.key = r.key /\ b.read = r.read
        /\ b.buffer = s /\ b.fault = r.fault
    BY <1>3, <2>1, <2>2 DEF Jobs
  <2>4. PICK h : h = r.held \cup {"buffer"}
    OBVIOUS
  <2>5. PICK q : q = Go(b, "create", h)
    OBVIOUS
  <2>6. /\ q \in Jobs /\ Same(q, b) /\ q.pc = "create" /\ q.held = h /\ q.fault = b.fault
    <3>1. "create" \in Places
      BY DEF Places
    <3>2. h \in SUBSET {"pkey", "ctx", "buffer", "file"}
      BY <1>4, <2>4
    <3>3. QED
      BY <2>3, <2>5, <3>1, <3>2, Gone
  <2>7. /\ q.task = r.task /\ q.key = r.key /\ q.read = r.read /\ q.buffer = s
        /\ q.fault = r.fault
    BY <2>3, <2>6 DEF Same
  <2>8. Placed(q) /\ Holding(q)
    BY <1>2, <1>3, <1>4, <2>4, <2>6, <2>7 DEF Placed, Holding
  <2>9. Keyed(q) /\ Content(q)
    BY <1>2, <1>3, <1>4, <2>1, <2>6, <2>7 DEF Keyed, Content, Is
  <2>10. j \in alone => View(q)
    BY <1>2, <1>3, <2>6, <2>7 DEF View, Sight, Answer, Is
  <2>11. made' \subseteq Key /\ alone' = alone /\ UNCHANGED <<files, rewrites>>
    BY <1>2 DEF SigningInv, FilesOK
  <2>12. Become(j, q) /\ q \in Local
    BY <1>6, <2>1, <2>2, <2>4, <2>5, <2>6, <2>8, <2>9 DEF Local
  <2>13. QED
    BY <1>1, <1>2, <1>3, <1>4, <2>7, <2>10, <2>11, <2>12, QuietStep
<1>7. CASE Become(j, Fail(r, {"ctx", "pkey"}))
  BY <1>1, <1>2, <1>4, <1>7, FailStep
<1>8. CASE Become(j, Fail([r EXCEPT !.held = r.held \cup {"buffer"}], {"buffer", "ctx", "pkey"}))
  <2>1. Fail([r EXCEPT !.held = r.held \cup {"buffer"}], {"buffer", "ctx", "pkey"})
          = Fail(r, {"buffer", "ctx", "pkey"})
    BY <1>3, <1>4 DEF Fail, Return, Jobs
  <2>2. r.held \subseteq {"buffer", "ctx", "pkey"} /\ r.pc # "idle"
    BY <1>2, <1>4
  <2>3. QED
    BY <1>1, <1>2, <1>8, <2>1, <2>2, FailStep
<1>9. QED
  BY <1>1, <1>5, <1>6, <1>7, <1>8 DEF SignFinal

-----------------------------------------------------------------------------
(* The steps that write files.                                             *)

LEMMA CreateSignatureStep ==
    ASSUME SigningInv, NEW j \in Job, CreateSignature(j)
    PROVE  SigningInv'
<1>1. PICK r : r = job[j]
  OBVIOUS
<1>2. r.pc = "create" /\ r.task.cmd = "sign" /\ UNCHANGED <<data, priv, pub, made, rewrites>>
  BY <1>1 DEF CreateSignature, At
<1>3. /\ r \in Jobs /\ Placed(r) /\ Holding(r) /\ Keyed(r) /\ Content(r)
      /\ r.task \in Task /\ (j \in alone => View(r)) /\ r.task # Missing
  BY <1>1, <1>2, Current
<1>4. /\ r.held \in SUBSET {"pkey", "ctx", "buffer", "file"}
      /\ r.held \subseteq {"buffer", "ctx", "pkey"} /\ r.key \in Key
  BY <1>2, <1>3 DEF Jobs, Holding, Keyed
<1>5. CASE sig' = Broken /\ Disturb(j) /\ Become(j, Go(r, "write", r.held))
  <2>1. PICK q : q = Go(r, "write", r.held)
    OBVIOUS
  <2>2. /\ q \in Jobs /\ Same(q, r) /\ q.pc = "write" /\ q.held = r.held
        /\ q.fault = r.fault
    <3>1. "write" \in Places
      BY DEF Places
    <3>2. QED
      BY <1>3, <1>4, <2>1, <3>1, Gone
  <2>3. /\ q.task = r.task /\ q.key = r.key /\ q.read = r.read /\ q.buffer = r.buffer
    BY <2>2 DEF Same
  <2>4. Placed(q) /\ Holding(q)
    BY <1>2, <1>3, <2>2, <2>3 DEF Placed, Holding
  <2>5. Keyed(q) /\ Content(q)
    BY <1>2, <1>3, <2>2, <2>3 DEF Keyed, Content, Is
  <2>6. alone' \subseteq alone \cap {j} /\ FilesOK'
    BY <1>2, <1>5 DEF Disturb, SigningInv, FilesOK
  <2>7. j \in alone' => View(q)'
    BY <1>2, <1>3, <2>2, <2>3, <2>6 DEF View, Sight, Answer, Is
  <2>8. Become(j, q) /\ q \in Local
    BY <1>1, <1>5, <2>1, <2>2, <2>4, <2>5 DEF Local
  <2>9. QED
    BY <1>1, <1>5, <2>3, <2>6, <2>7, <2>8, JobStep
<1>6. CASE /\ UNCHANGED <<sig, alone>>
           /\ Become(j, Return([r EXCEPT !.fault = TRUE], r.task.by = "library",
                               {"buffer", "ctx", "pkey"}))
  <2>1. PICK ok \in BOOLEAN : ok = (r.task.by = "library")
    OBVIOUS
  <2>2. PICK f : f = [r EXCEPT !.fault = TRUE]
    OBVIOUS
  <2>3. /\ f \in Jobs /\ f.task = r.task /\ f.key = r.key /\ f.read = r.read
        /\ f.buffer = r.buffer /\ f.fault = TRUE /\ f.held = r.held
    BY <1>3, <2>2 DEF Jobs
  <2>4. PICK q : q = Return(f, ok, {"buffer", "ctx", "pkey"})
    OBVIOUS
  <2>5. /\ q \in Jobs /\ Same(q, f) /\ q.pc = "done" /\ q.ok = ok /\ q.fault = TRUE
        /\ q.held = {}
    BY <1>4, <2>3, <2>4 DEF Return, Jobs, Places, Same
  <2>6. q \in Local
    <3>1. f \in Jobs /\ f.task \in Task /\ f.task.cmd # "verify"
      BY <1>2, <1>3, <2>3
    <3>2. QED
      BY <2>5, <3>1, Answered
  <2>7. q.task = r.task /\ q.read = r.read /\ q.buffer = r.buffer
    BY <2>3, <2>5 DEF Same
  <2>8. j \in alone => View(q)
    BY <1>2, <1>3, <2>1, <2>5, <2>7 DEF View, Sight, Answer, Is
  <2>9. made' \subseteq Key /\ alone' = alone /\ UNCHANGED <<files, rewrites>>
    BY <1>2, <1>6 DEF SigningInv, FilesOK, files
  <2>10. Become(j, q)
    BY <1>6, <2>1, <2>2, <2>4
  <2>11. QED
    BY <1>1, <1>3, <2>6, <2>7, <2>8, <2>9, <2>10, QuietStep
<1>7. QED
  BY <1>1, <1>5, <1>6 DEF CreateSignature

LEMMA WriteSignatureStep ==
    ASSUME SigningInv, NEW j \in Job, WriteSignature(j)
    PROVE  SigningInv'
<1>1. PICK r : r = job[j]
  OBVIOUS
<1>2. /\ r.pc = "write" /\ r.task.cmd = "sign" /\ UNCHANGED <<data, priv, pub, made, rewrites>>
      /\ alone' \subseteq alone \cap {j}
  BY <1>1 DEF WriteSignature, At, Disturb
<1>3. /\ r \in Jobs /\ Placed(r) /\ Holding(r) /\ Keyed(r) /\ Content(r)
      /\ r.task \in Task /\ (j \in alone => View(r)) /\ r.task # Missing
  BY <1>1, <1>2, Current
<1>4. /\ r.held \subseteq {"buffer", "ctx", "pkey"} /\ r.fault \in BOOLEAN
      /\ r.key \in Key /\ r.read \in Bytes
      /\ r.buffer = Signature(r.key, r.read)
  BY <1>2, <1>3 DEF Jobs, Holding, Keyed, Content
<1>5. PICK fault \in BOOLEAN :
        /\ sig' = IF fault THEN Broken ELSE r.buffer
        /\ Become(j, Return([r EXCEPT !.fault = @ \/ fault], TRUE, {"buffer", "ctx", "pkey"}))
  BY <1>1 DEF WriteSignature
<1>6. PICK b \in BOOLEAN : b = (r.fault \/ fault)
  BY <1>4, <1>5
<1>7. PICK f : f = [r EXCEPT !.fault = b]
  OBVIOUS
<1>8. /\ f \in Jobs /\ f.task = r.task /\ f.key = r.key /\ f.read = r.read
      /\ f.buffer = r.buffer /\ f.fault = b /\ f.held = r.held
  BY <1>3, <1>6, <1>7 DEF Jobs
<1>9. PICK q : q = Return(f, TRUE, {"buffer", "ctx", "pkey"})
  OBVIOUS
<1>10. /\ q \in Jobs /\ Same(q, f) /\ q.pc = "done" /\ q.ok = TRUE /\ q.fault = b
       /\ q.held = {}
  BY <1>4, <1>8, <1>9 DEF Return, Jobs, Places, Same
<1>11. q \in Local
  <2>1. f \in Jobs /\ f.task \in Task /\ f.task.cmd # "verify"
    BY <1>2, <1>3, <1>8
  <2>2. QED
    BY <1>10, <2>1, Answered
<1>12. q.task = r.task /\ q.read = r.read /\ q.buffer = r.buffer
  BY <1>8, <1>10 DEF Same
<1>13. FilesOK'
  <2>1. r.buffer \in Signatures
    BY <1>3, <1>4, SignatureType
  <2>2. QED
    BY <1>2, <1>5, <2>1 DEF SigningInv, FilesOK
<1>14. j \in alone' => View(q)'
  <2>1. SUFFICES ASSUME j \in alone' PROVE View(q)'
    OBVIOUS
  <2>2. j \in alone /\ priv' = priv /\ data' = data
    BY <1>2, <2>1
  <2>3. Sight(q)'
    BY <1>2, <1>3, <1>10, <1>12, <2>2 DEF View, Sight, Is
  <2>4. r.key = priv
    BY <1>2, <1>3, <2>2 DEF View, Sight, Is
  <2>5. ~q.fault => r.read = data
    <3>1. ~q.fault => Len(r.read) = Chunks
      BY <1>2, <1>3, <1>6, <1>10 DEF Content
    <3>2. QED
      BY <1>1, <1>2, <2>2, <3>1, WholeFile
  <2>6. sig' \in {Broken, Signature(priv, r.read)}
    BY <1>4, <1>5, <2>4
  <2>7. ~q.fault => sig' = Signature(priv, data)
    BY <1>4, <1>5, <1>6, <1>10, <2>4, <2>5
  <2>8. Answer(q)'
    BY <1>2, <1>10, <1>12, <2>2, <2>6, <2>7 DEF Answer, Is
  <2>9. QED
    BY <2>3, <2>8 DEF View
<1>15. Become(j, q)
  BY <1>5, <1>6, <1>7, <1>9
<1>16. QED
  BY <1>1, <1>2, <1>5, <1>11, <1>12, <1>13, <1>14, <1>15, JobStep

\* The steps of keygen: q is what it becomes, having written one of its files.
LEMMA KeygenWrites ==
    ASSUME SigningInv, NEW j \in Job, NEW r, r = job[j], r.task.cmd = "keygen",
           r.pc \in {"private", "write private", "public", "write public"},
           NEW q \in Jobs, Become(j, q), Same(q, r), q.held \subseteq {"pkey"},
           \/ q.pc \in {"write private", "public", "write public"}
           \/ q.pc = "done" /\ q.held = {},
           UNCHANGED <<data, sig, made, rewrites>>, alone' \subseteq alone \cap {j},
           {priv', pub'} \subseteq {priv, pub, Broken, r.key},
           j \in alone /\ ~q.fault =>
             /\ q.pc \in {"public", "write public"} => priv' = r.key
             /\ q.pc = "done" => priv' = r.key /\ pub' = r.key
    PROVE  SigningInv'
<1>1. /\ r \in Jobs /\ Keyed(r)
      /\ r.task \in Task /\ (j \in alone => View(r)) /\ r.task # Missing
  BY Current
<1>2. q.task = r.task /\ q.key = r.key /\ q.read = r.read /\ q.buffer = r.buffer
      /\ r.key \in Key
  BY <1>1 DEF Same, Keyed
<1>3. FilesOK'
  BY <1>2 DEF SigningInv, FilesOK
<1>4. Placed(q) /\ Holding(q)
  BY <1>1, <1>2 DEF Placed, Holding
<1>5. Keyed(q) /\ Content(q)
  BY <1>1, <1>2 DEF Keyed, Content, Is
<1>6. j \in alone' => View(q)'
  BY <1>1, <1>2 DEF View, Sight, Answer, Is
<1>7. q \in Local
  BY <1>4, <1>5 DEF Local
<1>8. QED
  BY <1>2, <1>3, <1>6, <1>7, JobStep

LEMMA TruncateStep ==
    ASSUME SigningInv, NEW j \in Job, TruncatePrivate(j) \/ TruncatePublic(j)
    PROVE  SigningInv'
<1>1. PICK r : r = job[j]
  OBVIOUS
<1>2. /\ r.task.cmd = "keygen" /\ r.pc \in {"private", "public"}
      /\ UNCHANGED <<data, sig, made, rewrites>> /\ alone' \subseteq alone \cap {j}
  BY <1>1 DEF TruncatePrivate, TruncatePublic, At, Disturb
<1>3. /\ r \in Jobs /\ Holding(r) /\ Keyed(r) /\ r.task \in Task /\ (j \in alone => View(r))
  BY <1>1, <1>2, Current
<1>4. /\ r.held \in SUBSET {"pkey", "ctx", "buffer", "file"} /\ r.held \subseteq {"pkey"}
  BY <1>2, <1>3 DEF Jobs, Holding
<1>5. PICK pc \in {"write private", "write public"} :
        pc = IF r.pc = "private" THEN "write private" ELSE "write public"
  OBVIOUS
<1>6. PICK q : q = Go(r, pc, r.held)
  OBVIOUS
<1>7. q \in Jobs /\ Same(q, r) /\ q.pc = pc /\ q.held = r.held /\ q.fault = r.fault
  <2>1. pc \in Places
    BY <1>5 DEF Places
  <2>2. QED
    BY <1>3, <1>4, <1>6, <2>1 DEF Go, Jobs, Same
<1>8. Become(j, q) /\ {priv', pub'} \subseteq {priv, pub, Broken, r.key}
      /\ (r.pc = "public" => priv' = priv)
  BY <1>1, <1>5, <1>6 DEF TruncatePrivate, TruncatePublic, At
<1>9. j \in alone /\ ~q.fault => (q.pc \in {"public", "write public"} => priv' = r.key)
  BY <1>2, <1>3, <1>5, <1>7, <1>8 DEF View, Sight, Is
<1>10. QED
  BY <1>1, <1>2, <1>4, <1>5, <1>7, <1>8, <1>9, KeygenWrites

LEMMA WritePrivateStep ==
    ASSUME SigningInv, NEW j \in Job, WritePrivate(j)
    PROVE  SigningInv'
<1>1. PICK r : r = job[j]
  OBVIOUS
<1>2. /\ r.task.cmd = "keygen" /\ r.pc = "write private"
      /\ UNCHANGED <<data, sig, pub, made, rewrites>> /\ alone' \subseteq alone \cap {j}
  BY <1>1 DEF WritePrivate, At, Disturb
<1>3. r \in Jobs /\ Holding(r) /\ r.task \in Task
  BY <1>1, <1>2, Current
<1>4. /\ r.held \in SUBSET {"pkey", "ctx", "buffer", "file"} /\ r.held \subseteq {"pkey"}
      /\ r.fault \in BOOLEAN
  BY <1>2, <1>3 DEF Jobs, Holding
<1>5. PICK fault \in BOOLEAN :
        /\ priv' = IF fault THEN Broken ELSE r.key
        /\ Become(j, Go([r EXCEPT !.fault = @ \/ fault], "public", r.held))
  BY <1>1 DEF WritePrivate
<1>6. PICK b \in BOOLEAN : b = (r.fault \/ fault)
  BY <1>4, <1>5
<1>7. PICK f : f = [r EXCEPT !.fault = b]
  OBVIOUS
<1>8. /\ f \in Jobs /\ Same(f, r) /\ f.fault = b
  BY <1>3, <1>6, <1>7 DEF Jobs, Same
<1>9. PICK q : q = Go(f, "public", r.held)
  OBVIOUS
<1>10. q \in Jobs /\ Same(q, f) /\ q.pc = "public" /\ q.held = r.held /\ q.fault = b
  <2>1. "public" \in Places
    BY DEF Places
  <2>2. QED
    BY <1>4, <1>8, <1>9, <2>1, Gone
<1>11. Same(q, r)
  BY <1>8, <1>10 DEF Same
<1>12. Become(j, q) /\ {priv', pub'} \subseteq {priv, pub, Broken, r.key}
       /\ (~b => priv' = r.key)
  BY <1>2, <1>5, <1>6, <1>7, <1>9
<1>13. QED
  BY <1>1, <1>2, <1>4, <1>10, <1>11, <1>12, KeygenWrites

LEMMA WritePublicStep ==
    ASSUME SigningInv, NEW j \in Job, WritePublic(j)
    PROVE  SigningInv'
<1>1. PICK r : r = job[j]
  OBVIOUS
<1>2. /\ r.task.cmd = "keygen" /\ r.pc = "write public"
      /\ UNCHANGED <<data, sig, priv, made, rewrites>> /\ alone' \subseteq alone \cap {j}
  BY <1>1 DEF WritePublic, At, Disturb
<1>3. r \in Jobs /\ Holding(r) /\ r.task \in Task /\ (j \in alone => View(r))
  BY <1>1, <1>2, Current
<1>4. r.held \subseteq {"pkey"} /\ r.fault \in BOOLEAN
  BY <1>2, <1>3 DEF Jobs, Holding
<1>5. PICK fault \in BOOLEAN :
        /\ pub' = IF fault THEN Broken ELSE r.key
        /\ Become(j, Return([r EXCEPT !.fault = @ \/ fault], TRUE, {"pkey"}))
  BY <1>1 DEF WritePublic
<1>6. PICK b \in BOOLEAN : b = (r.fault \/ fault)
  BY <1>4, <1>5
<1>7. PICK f : f = [r EXCEPT !.fault = b]
  OBVIOUS
<1>8. /\ f \in Jobs /\ Same(f, r) /\ f.fault = b /\ f.held = r.held
  BY <1>3, <1>6, <1>7 DEF Jobs, Same
<1>9. PICK q : q = Return(f, TRUE, {"pkey"})
  OBVIOUS
<1>10. /\ q \in Jobs /\ Same(q, f) /\ q.pc = "done" /\ q.held = {} /\ q.fault = b
  BY <1>4, <1>8, <1>9 DEF Return, Jobs, Places, Same
<1>11. Same(q, r)
  BY <1>8, <1>10 DEF Same
<1>12. Become(j, q) /\ {priv', pub'} \subseteq {priv, pub, Broken, r.key}
  BY <1>2, <1>5, <1>6, <1>7, <1>9
<1>13. j \in alone /\ ~b => priv' = r.key /\ pub' = r.key
  BY <1>2, <1>3, <1>5, <1>6 DEF View, Sight, Is
<1>14. QED
  BY <1>1, <1>2, <1>10, <1>11, <1>12, <1>13, KeygenWrites

LEMMA RewriteStep ==
    ASSUME SigningInv, NEW i \in 1 .. Chunks, NEW v \in Version, Rewrite(i, v)
    PROVE  SigningInv'
<1>1. FilesOK'
  BY SigningAssumption DEF SigningInv, FilesOK, Rewrite
<1>2. UNCHANGED <<job, sig>> /\ alone' = {}
  BY DEF Rewrite
<1>3. \A s : Known(s) => Known(s)'
  BY <1>2 DEF Known, Made
<1>4. Known(sig)'
  <2>1. PICK s : s = sig'
    OBVIOUS
  <2>2. Known(s)'
    BY <1>2, <1>3, <2>1 DEF SigningInv
  <2>3. QED
    BY <2>1, <2>2 DEF Known
<1>5. ASSUME NEW j \in Job PROVE Known(job[j].buffer)'
  <2>1. PICK s : s = job'[j].buffer
    OBVIOUS
  <2>2. Known(s)'
    BY <1>2, <1>3, <2>1 DEF SigningInv
  <2>3. QED
    BY ONLY <2>1, <2>2 DEF Known
<1>6. QED
  BY <1>1, <1>2, <1>4, <1>5 DEF SigningInv

LEMMA Stutter ==
    ASSUME SigningInv, UNCHANGED vars
    PROVE  SigningInv'
<1>1. UNCHANGED <<data, sig, priv, pub, made, rewrites, job, alone>>
  BY DEF vars, files
<1>2. FilesOK' /\ job' \in [Job -> Local] /\ alone' \subseteq Job
  BY <1>1 DEF SigningInv, FilesOK
<1>3. Known(sig)'
  BY <1>1 DEF SigningInv, Known, Made
<1>4. \A j \in Job : Known(job[j].buffer)'
  BY <1>1 DEF SigningInv, Known, Made
<1>5. ASSUME NEW j \in alone' PROVE View(job[j])'
  <2>1. View(job[j])
    BY <1>1, <1>5 DEF SigningInv
  <2>2. QED
    BY <1>1, <2>1 DEF View, Sight, Answer, Is, Genuine
<1>6. QED
  BY <1>2, <1>3, <1>4, <1>5 DEF SigningInv

-----------------------------------------------------------------------------

LEMMA InitSigning == Init => SigningInv
<1> SUFFICES ASSUME Init PROVE SigningInv
  OBVIOUS
<1> USE SigningAssumption
<1>1. FilesOK
  <2>1. priv \in Key => Signature(priv, Original) \in Signatures
    BY OriginalType, SignatureType
  <2>2. sig \in {Missing, Broken} \cup Signatures
    BY <2>1 DEF Init
  <2>3. QED
    BY <2>2, OriginalType DEF Init, FilesOK
<1>2. job \in [Job -> Local]
  BY FreshIsLocal DEF Init
<1>3. Known(sig)
  BY DEF Init, Known, Signature
<1>4. \A j \in Job : Known(job[j].buffer)
  BY DEF Init, Known, Fresh
<1>5. alone = {}
  BY DEF Init
<1>6. QED
  BY <1>1, <1>2, <1>3, <1>4, <1>5 DEF SigningInv

LEMMA NextSigning == SigningInv /\ [Next]_vars => SigningInv'
<1> SUFFICES ASSUME SigningInv, [Next]_vars PROVE SigningInv'
  OBVIOUS
<1>1. ASSUME NEW j \in Job, Run(j) PROVE SigningInv'
  <2>1. ASSUME NEW t \in Tasks, Sign(j, t) \/ Verify(j, t) \/ Keygen(j, t) \/ Checksum(j, t)
        PROVE  SigningInv'
    <3>1. t \in Task
      BY SigningAssumption
    <3>2. CASE Sign(j, t)
      BY <3>1, <3>2, LoadKeyStep DEF Sign
    <3>3. CASE Verify(j, t)
      BY <3>1, <3>3, LoadKeyStep DEF Verify
    <3>4. CASE Keygen(j, t)
      BY <3>1, <3>4, KeygenStep
    <3>5. CASE Checksum(j, t)
      BY <3>1, <3>5, ChecksumStep
    <3>6. QED
      BY <2>1, <3>2, <3>3, <3>4, <3>5
  <2>2. CASE ReadSignature(j) \/ InitDigest(j) \/ OpenData(j) \/ ReadPiece(j)
    BY <2>2, ReadSignatureStep, InitDigestStep, OpenDataStep, ReadPieceStep
  <2>3. CASE SignFinal(j) \/ CreateSignature(j) \/ WriteSignature(j)
    BY <2>3, SignFinalStep, CreateSignatureStep, WriteSignatureStep
  <2>4. CASE VerifyFinal(j) \/ ChecksumFinal(j) \/ Killed(j)
    BY <2>4, VerifyFinalStep, ChecksumFinalStep, KilledStep
  <2>5. CASE TruncatePrivate(j) \/ WritePrivate(j) \/ TruncatePublic(j) \/ WritePublic(j)
    BY <2>5, TruncateStep, WritePrivateStep, WritePublicStep
  <2>6. QED
    BY <1>1, <2>1, <2>2, <2>3, <2>4, <2>5 DEF Run
<1>2. ASSUME NEW i \in 1 .. Chunks, NEW v \in Version, Rewrite(i, v) PROVE SigningInv'
  BY <1>2, RewriteStep
<1>3. CASE UNCHANGED vars
  BY <1>3, Stutter
<1>4. QED
  BY <1>1, <1>2, <1>3 DEF Next

\* The invariant holds of every execution, whatever is rewritten, truncated or killed.
THEOREM SigningInvariant == Spec => []SigningInv
<1>1. Init => SigningInv
  BY InitSigning
<1>2. SigningInv /\ [Next]_vars => SigningInv'
  BY NextSigning
<1>3. QED
  BY <1>1, <1>2, PTL DEF Spec

\* The files and the processes keep their types, and no process digests more than the
\* file (sign_file, verify_file, tizen_checksum_file).
THEOREM SigningTypeCorrect == Spec => []TypeOK
<1>1. SigningInv => TypeOK
  BY DEF SigningInv, TypeOK, FilesOK, Local
<1>2. QED
  BY <1>1, SigningInvariant, PTL

\* Every exit of every command, the failure of each call it looks at included, has freed
\* the key, the context and the buffer and closed the file.
THEOREM NoExitLeaks == Spec => []NothingIsLeaked
<1>1. SigningInv => NothingIsLeaked
  BY DEF SigningInv, NothingIsLeaked, Local, Holding
<1>2. QED
  BY <1>1, SigningInvariant, PTL

\* What a command answers is true of the files when nobody else wrote them and no call
\* failed; a verification that says no to a signature of the file had a key that the
\* code cannot work with.
THEOREM AnswersAreTrue == Spec => []AnswerIsTrue
<1>1. SigningInv => AnswerIsTrue
  BY DEF SigningInv, View, Answer, Is, AnswerIsTrue, Usable, Finished, At
<1>2. QED
  BY <1>1, SigningInvariant, PTL

\* signFile does not report success over an older signature.
THEOREM NoStaleSuccess == Spec => []NoStaleSignature
<1>1. SigningInv => NoStaleSignature
  BY DEF SigningInv, View, Answer, Is, NoStaleSignature, Finished, At
<1>2. QED
  BY <1>1, SigningInvariant, PTL

\* A signature that is accepted was made, by a process that signed or before all of them.
THEOREM AcceptedOnlyIfSigned == Spec => []AcceptedWasSigned
<1>1. SigningInv => AcceptedWasSigned
  <2> SUFFICES ASSUME SigningInv, NEW j \in Job, Finished(j, "verify"), job[j].ok
               PROVE  job[j].buffer \in Made \/ job[j].read = Original
    BY DEF AcceptedWasSigned
  <2>1. PICK r : r = job[j]
    OBVIOUS
  <2>2. r.pc = "done" /\ r.task.cmd = "verify" /\ r.ok
    BY <2>1 DEF Finished, At
  <2>3. r \in Jobs /\ Content(r) /\ r.task \in Task
    BY <2>1, <2>2, Current
  <2>4. r.read \in Bytes /\ r.key \in Key
        /\ r.buffer = Signature(r.key, r.read)
    BY <2>2, <2>3 DEF Jobs, Content, Is
  <2>5. r.buffer \notin {Missing, Broken} /\ r.buffer.bytes = r.read
    BY <2>3, <2>4, SignatureType DEF Signature
  <2>6. Known(r.buffer)
    BY <2>1 DEF SigningInv
  <2>7. QED
    BY <2>1, <2>5, <2>6 DEF Known
<1>2. QED
  BY <1>1, SigningInvariant, PTL

=============================================================================
