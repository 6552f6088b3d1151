------------------------------- MODULE Signing -------------------------------
(***************************************************************************)
(* Signing, verifying and digesting files: libtizen-core (signature.c,     *)
(* checksum.c) and the command line tool signFile (main.c), run by several *)
(* processes on one data file, one signature file and one pair of key      *)
(* files while the data is being rewritten. Nothing locks these files.     *)
(*                                                                         *)
(* A key is the pair it belongs to, a signature the record of who signed   *)
(* what with which padding: nobody forges one. OpenSSL is external.        *)
(*                                                                         *)
(* signature.c and checksum.c are in no build file, and signature.c does   *)
(* not compile against OpenSSL 3 (its line 81 calls EVP_MD_CTX_pkey_ctx    *)
(* with an argument too many): they are modelled as they read, beside      *)
(* signFile, which is the same code once more and does compile.            *)
(***************************************************************************)
EXTENDS Naturals, Sequences

CONSTANTS
    Job,           \* processes that run one command each
    Key,           \* key pairs that exist or may be generated
    Type,          \* their types: Key -> {"ed25519", "rsa", "ecdsa"}
    OneShot,       \* external: types whose provider has no streaming update
    Tasks,         \* the commands that may be given
    Chunks,        \* data is read by pieces of CHUNK_SIZE
    Version,       \* what a piece may hold
    First,         \* what every piece holds at first
    MaxRewrites,   \* bound of the model: rewrites of a piece
    Missing,       \* no such file, or nothing read
    Broken         \* a file truncated or written in part

Commands == {"sign", "verify", "keygen", "checksum"}
Task == [cmd : Commands, by : {"library", "tool"},
         algo : {"ed25519", "rsa", "ecdsa", "omitted"}]

\* What may be read of a file, and the signatures of it.
Bytes == UNION {[1 .. n -> Version] : n \in 0 .. Chunks}
Signatures == [key : Key, bytes : Bytes, padding : {"pkcs1", "pss", "none"}]

ASSUME SigningAssumption ==
    /\ Type \in [Key -> {"ed25519", "rsa", "ecdsa"}]
    /\ Tasks \subseteq Task
    /\ Chunks \in Nat \ {0} /\ MaxRewrites \in Nat
    /\ First \in Version
    /\ {Missing, Broken} \cap (Key \cup Signatures \cup Task) = {} /\ Missing # Broken

VARIABLES
    data,       \* the data file
    sig,        \* the signature file
    priv,       \* the private key file
    pub,        \* the public key file
    made,       \* pairs generated so far
    rewrites,
    job,        \* each process, see Fresh
    alone       \* the processes that wrote every file written since they started

files == <<data, sig, priv, pub>>
vars == <<files, made, rewrites, job, alone>>

\* pc: where it is; read: the pieces it has digested; buffer: the signature it
\* has made or read; held: what it has to free; ok: what it returned; fault: an
\* input or output failed on it.
Fresh == [pc |-> "idle", task |-> Missing, key |-> Missing, read |-> <<>>,
          buffer |-> Missing, held |-> {}, ok |-> FALSE, fault |-> FALSE]

-----------------------------------------------------------------------------
(* What the code asks of OpenSSL.                                          *)

\* get_md_by_algo and algo == TIZEN_SIG_ED25519. The tool takes its last argument
\* for the algorithm, which is the file before it when the user gives none.
Digest(t) == IF t.algo = "ed25519" THEN "none" ELSE "sha256"
\* The type do_keygen makes; its own argument does default to ed25519.
KeygenType(t) == IF t.algo \in {"rsa", "ecdsa"} THEN t.algo ELSE "ed25519"

\* External: an Ed25519 key takes no digest, the others have a default.
InitAccepts(k, t) == Type[k] = "ed25519" => Digest(t) = "none"

\* External: what EVP pads with unless told otherwise. signature.c:82 would tell it,
\* but nothing ever writes the pctx it looks at.
Padding(k) == IF Type[k] = "rsa" THEN "pkcs1" ELSE "none"

Signature(k, bytes) == [key |-> k, bytes |-> bytes, padding |-> Padding(k)]

\* The keys the code can work with: it streams, and it names a digest.
Usable(k, t) == Type[k] \notin OneShot /\ InitAccepts(k, t)

-----------------------------------------------------------------------------
(* Steps of a process.                                                     *)

Become(j, r) == job' = [job EXCEPT ![j] = r]
Disturb(j) == alone' = alone \cap {j}
Start(j) == alone' = alone \cup {j}

At(j, cmd, pc) == job[j].pc = pc /\ job[j].task.cmd = cmd
Go(r, pc, held) == [r EXCEPT !.pc = pc, !.held = held]
Return(r, ok, freed) == [r EXCEPT !.pc = "done", !.ok = ok, !.held = @ \ freed]
Fail(r, freed) == Return([r EXCEPT !.fault = TRUE], FALSE, freed)

Begun(t) == [Fresh EXCEPT !.task = t]

\* load_private_key, load_public_key: a file that is missing, or does not parse, is
\* no key.
LoadKey(j, t, file) ==
    /\ job[j].pc = "idle" /\ Start(j)
    /\ \/ file \in Key
          /\ Become(j, Go([Begun(t) EXCEPT !.key = file],
                          IF t.cmd = "sign" THEN "init" ELSE "signature", {"pkey"}))
       \/ file \notin Key /\ Become(j, Return(Begun(t), FALSE, {}))
       \/ Become(j, Fail(Begun(t), {}))
    /\ UNCHANGED <<files, made, rewrites>>

Sign(j, t) == t.cmd = "sign" /\ LoadKey(j, t, priv)
Verify(j, t) == t.cmd = "verify" /\ LoadKey(j, t, pub)

\* The signature is read at once: opened, measured and read, or in error.
ReadSignature(j) ==
    LET r == job[j] IN
    /\ At(j, "verify", "signature")
    /\ \/ sig # Missing
          /\ Become(j, Go([r EXCEPT !.buffer = sig], "init", {"pkey", "buffer"}))
       \/ sig = Missing /\ Become(j, Return(r, FALSE, {"pkey"}))
       \/ Become(j, Fail(r, {"pkey"}))
    /\ UNCHANGED <<files, made, rewrites, alone>>

\* EVP_DigestSignInit, EVP_DigestVerifyInit
InitDigest(j) ==
    LET r == job[j] IN
    /\ r.pc = "init"
    /\ \/ InitAccepts(r.key, r.task) /\ Become(j, Go(r, "open", r.held \cup {"ctx"}))
       \/ ~InitAccepts(r.key, r.task) /\ Become(j, Return(r, FALSE, {"buffer", "ctx", "pkey"}))
       \/ Become(j, Fail(r, {"buffer", "ctx", "pkey"}))
    /\ UNCHANGED <<files, made, rewrites, alone>>

\* Mutant: the context is forgotten when the data cannot be opened.
OpenLeaks(j) ==
    LET r == job[j] IN
    /\ r.pc = "open"
    /\ \/ Become(j, Go(r, "read", r.held \cup {"file"}))
       \/ Become(j, Fail(r, {"buffer", "pkey"}))
    /\ UNCHANGED <<files, made, rewrites, alone>>

\* fopen of the data file
OpenData(j) ==
    LET r == job[j] IN
    /\ r.pc = "open"
    /\ \/ Become(j, Go(r, "read", r.held \cup {"file"}))
       \/ Become(j, Fail(r, {"buffer", "ctx", "pkey"}))
    /\ UNCHANGED <<files, made, rewrites, alone>>

\* tizen_checksum_file: fopen, the context, its initialisation
Checksum(j, t) ==
    LET r == Begun(t) IN
    /\ job[j].pc = "idle" /\ t.cmd = "checksum" /\ Start(j)
    /\ \/ Become(j, Go(r, "read", {"file", "ctx"}))
       \/ Become(j, Fail(r, {}))
       \/ Become(j, Fail([r EXCEPT !.held = {"file"}], {"file"}))
       \/ Become(j, Fail([r EXCEPT !.held = {"file", "ctx"}], {"ctx", "file"}))
    /\ UNCHANGED <<files, made, rewrites>>

\* Mutant: a loop that a short read ends, before its bytes are digested.
ReadShort(j) ==
    LET r == job[j] IN
    /\ r.pc = "read"
    /\ Become(j, IF Len(r.read) < Chunks - 1
                 THEN [r EXCEPT !.read = Append(@, data[Len(@) + 1])]
                 ELSE Go(r, "final", r.held \ {"file"}))
    /\ UNCHANGED <<files, made, rewrites, alone>>

\* One turn of while ((n = fread(...)) > 0); a read error ends the loop like the
\* end of the file. The update of a one-shot key always fails, another may.
ReadPiece(j) ==
    LET r == job[j]
        closed == IF r.task.cmd = "checksum" THEN {} ELSE {"file"}
        last == Go(r, "final", r.held \ closed)
    IN
    /\ r.pc = "read"
    /\ \/ /\ Len(r.read) < Chunks
          /\ Become(j, IF r.key \in Key /\ Type[r.key] \in OneShot
                       THEN Return(r, FALSE, {"file", "buffer", "ctx", "pkey"})
                       ELSE [r EXCEPT !.read = Append(@, data[Len(@) + 1])])
       \/ Len(r.read) < Chunks /\ Become(j, Fail(r, {"file", "buffer", "ctx", "pkey"}))
       \/ Len(r.read) = Chunks /\ Become(j, last)
       \/ Len(r.read) < Chunks /\ Become(j, [last EXCEPT !.fault = TRUE])
    /\ UNCHANGED <<files, made, rewrites, alone>>

-----------------------------------------------------------------------------
(* The ends of each command.                                               *)

\* EVP_DigestSignFinal, for the length and, with a buffer, for the signature
SignFinal(j) ==
    LET r == job[j]
        allocated == r.held \cup {"buffer"}
    IN
    /\ At(j, "sign", "final")
    /\ \/ Type[r.key] \in OneShot /\ Become(j, Return(r, FALSE, {"ctx", "pkey"}))
       \/ Become(j, Fail(r, {"ctx", "pkey"}))
       \/ /\ Type[r.key] \notin OneShot
          /\ \/ Become(j, Go([r EXCEPT !.buffer = Signature(r.key, r.read)], "create", allocated))
             \/ Become(j, Fail([r EXCEPT !.held = allocated], {"buffer", "ctx", "pkey"}))
    /\ UNCHANGED <<files, made, rewrites, alone>>

\* Mutant: the tool takes a file it cannot open for written, as the library does.
CreateUnchecked(j) ==
    LET r == job[j] IN
    /\ At(j, "sign", "create")
    /\ \/ sig' = Broken /\ Disturb(j) /\ Become(j, Go(r, "write", r.held))
       \/ /\ UNCHANGED <<sig, alone>>
          /\ Become(j, Return([r EXCEPT !.fault = TRUE], TRUE, {"buffer", "ctx", "pkey"}))
    /\ UNCHANGED <<data, priv, pub, made, rewrites>>

\* fopen of the signature file truncates it. When it fails the tool reports it;
\* the library skips the writing and returns true.
CreateSignature(j) ==
    LET r == job[j] IN
    /\ At(j, "sign", "create")
    /\ \/ sig' = Broken /\ Disturb(j) /\ Become(j, Go(r, "write", r.held))
       \/ /\ UNCHANGED <<sig, alone>>
          /\ Become(j, Return([r EXCEPT !.fault = TRUE], r.task.by = "library",
                              {"buffer", "ctx", "pkey"}))
    /\ UNCHANGED <<data, priv, pub, made, rewrites>>

\* fwrite and fclose, whose results nobody looks at
WriteSignature(j) ==
    LET r == job[j] IN
    /\ At(j, "sign", "write")
    /\ Disturb(j)
    /\ \E fault \in BOOLEAN :
         /\ sig' = IF fault THEN Broken ELSE r.buffer
         /\ Become(j, Return([r EXCEPT !.fault = @ \/ fault], TRUE, {"buffer", "ctx", "pkey"}))
    /\ UNCHANGED <<data, priv, pub, made, rewrites>>

\* Mutant: any result but 0, the negative ones of a malformed signature included.
NegativeIsTrue(j) ==
    LET r == job[j] IN
    /\ At(j, "verify", "final")
    /\ Become(j, Return(r, \/ r.buffer = Broken
                           \/ r.buffer = Signature(r.key, r.read),
                        {"buffer", "ctx", "pkey"}))
    /\ UNCHANGED <<files, made, rewrites, alone>>

\* EVP_DigestVerifyFinal(...) == 1
VerifyFinal(j) ==
    LET r == job[j] IN
    /\ At(j, "verify", "final")
    /\ \/ Become(j, Return(r, /\ Type[r.key] \notin OneShot
                              /\ r.buffer = Signature(r.key, r.read),
                           {"buffer", "ctx", "pkey"}))
       \/ Become(j, Fail(r, {"buffer", "ctx", "pkey"}))
    /\ UNCHANGED <<files, made, rewrites, alone>>

\* tizen_checksum_verify_file against the digest of the first version
Original == [i \in 1 .. Chunks |-> First]
ChecksumFinal(j) ==
    /\ At(j, "checksum", "final")
    /\ \/ Become(j, Return(job[j], job[j].read = Original, {"ctx", "file"}))
       \/ Become(j, Fail(job[j], {"ctx", "file"}))
    /\ UNCHANGED <<files, made, rewrites, alone>>

\* Mutant: EVP_PKEY_keygen's result is not looked at either.
KeygenUnchecked(j, t) ==
    /\ job[j].pc = "idle" /\ t.cmd = "keygen" /\ Start(j)
    /\ Become(j, Go([Begun(t) EXCEPT !.fault = TRUE], "private", {"pkey"}))
    /\ UNCHANGED <<files, made, rewrites>>

\* do_keygen: the pair, unless EVP_PKEY_keygen failed; k is unlike any before
Keygen(j, t) ==
    /\ job[j].pc = "idle" /\ t.cmd = "keygen" /\ Start(j)
    /\ \/ \E k \in Key \ made :
            /\ Type[k] = KeygenType(t)
            /\ made' = made \cup {k}
            /\ Become(j, Go([Begun(t) EXCEPT !.key = k], "private", {"pkey"}))
       \/ UNCHANGED made /\ Become(j, Fail(Begun(t), {}))
    /\ UNCHANGED <<files, rewrites>>

\* fopen(priv_path, "w") truncates; the pointer is not looked at, so a file that
\* cannot be opened is a crash (Killed).
TruncatePrivate(j) ==
    /\ At(j, "keygen", "private")
    /\ priv' = Broken /\ Disturb(j)
    /\ Become(j, Go(job[j], "write private", job[j].held))
    /\ UNCHANGED <<data, sig, pub, made, rewrites>>

\* PEM_write_PrivateKey and fclose, unchecked
WritePrivate(j) ==
    LET r == job[j] IN
    /\ At(j, "keygen", "write private")
    /\ Disturb(j)
    /\ \E fault \in BOOLEAN :
         /\ priv' = IF fault THEN Broken ELSE r.key
         /\ Become(j, Go([r EXCEPT !.fault = @ \/ fault], "public", r.held))
    /\ UNCHANGED <<data, sig, pub, made, rewrites>>

TruncatePublic(j) ==
    /\ At(j, "keygen", "public")
    /\ pub' = Broken /\ Disturb(j)
    /\ Become(j, Go(job[j], "write public", job[j].held))
    /\ UNCHANGED <<data, sig, priv, made, rewrites>>

WritePublic(j) ==
    LET r == job[j] IN
    /\ At(j, "keygen", "write public")
    /\ Disturb(j)
    /\ \E fault \in BOOLEAN :
         /\ pub' = IF fault THEN Broken ELSE r.key
         /\ Become(j, Return([r EXCEPT !.fault = @ \/ fault], TRUE, {"pkey"}))
    /\ UNCHANGED <<data, sig, priv, made, rewrites>>

\* The process is killed, or crashes in code that looks at no result: keygen's
\* fopen, the malloc of sign.
Killed(j) ==
    /\ job[j].pc \notin {"idle", "done", "killed"}
    /\ Become(j, [job[j] EXCEPT !.pc = "killed", !.held = {}])
    /\ UNCHANGED <<files, made, rewrites, alone>>

\* Somebody rewrites a piece of the data in place.
Rewrite(i, v) ==
    /\ rewrites < MaxRewrites
    /\ data[i] # v
    /\ data' = [data EXCEPT ![i] = v]
    /\ rewrites' = rewrites + 1
    /\ alone' = {}
    /\ UNCHANGED <<sig, priv, pub, made, job>>

-----------------------------------------------------------------------------

\* The files as earlier commands left them: a private key, its public key or what
\* a killed keygen leaves of it, and no signature, a broken one or one of the first
\* version.
Init ==
    /\ data = Original
    /\ priv \in Key /\ pub \in {priv, Broken} /\ made = {priv}
    /\ sig \in {Missing, Broken, Signature(priv, Original)}
    /\ rewrites = 0
    /\ job = [j \in Job |-> Fresh] /\ alone = {}

Run(j) ==
    \/ \E t \in Tasks : Sign(j, t) \/ Verify(j, t) \/ Keygen(j, t) \/ Checksum(j, t)
    \/ ReadSignature(j) \/ InitDigest(j) \/ OpenData(j) \/ ReadPiece(j)
    \/ SignFinal(j) \/ CreateSignature(j) \/ WriteSignature(j)
    \/ VerifyFinal(j) \/ ChecksumFinal(j)
    \/ TruncatePrivate(j) \/ WritePrivate(j) \/ TruncatePublic(j) \/ WritePublic(j)
    \/ Killed(j)

Next ==
    \/ \E j \in Job : Run(j)
    \/ \E i \in 1 .. Chunks, v \in Version : Rewrite(i, v)

Spec == Init /\ [][Next]_vars

-----------------------------------------------------------------------------
(* Properties.                                                              *)

Places == {"idle", "signature", "init", "open", "read", "final", "create", "write",
           "private", "write private", "public", "write public", "done", "killed"}
Jobs == [pc : Places, task : {Missing} \cup Task, key : {Missing} \cup Key, read : Bytes,
         buffer : {Missing, Broken} \cup Signatures,
         held : SUBSET {"pkey", "ctx", "buffer", "file"}, ok : BOOLEAN, fault : BOOLEAN]

\* Every variable has its type; a process never digests more than the file.
TypeOK ==
    /\ data \in [1 .. Chunks -> Version]
    /\ sig \in {Missing, Broken} \cup Signatures
    /\ {priv, pub} \subseteq Key \cup {Broken}
    /\ made \subseteq Key
    /\ rewrites \in 0 .. MaxRewrites
    /\ job \in [Job -> Jobs]
    /\ alone \subseteq Job

Finished(j, cmd) == At(j, cmd, "done")

\* Whichever of its exits a command takes, after a failure of any of the calls it
\* looks at or after none, it has freed its key, its context and its buffer and
\* closed its file.
NothingIsLeaked == \A j \in Job : job[j].pc = "done" => job[j].held = {}

Genuine == pub \in Key /\ sig = Signature(pub, data)

\* What a command says is true of the files when nobody else has written any since
\* it started and nothing failed: a verification accepts nothing but a signature of
\* the file, and accepts it if the code can work with the key (with an Ed25519 key it
\* never can, see DefaultKeySigns); a checksum accepts exactly the file, a new pair
\* is a pair, and a file that was signed has its signature.
AnswerIsTrue ==
    \A j \in Job : j \in alone /\ ~job[j].fault =>
        /\ Finished(j, "verify") /\ job[j].ok => Genuine
        /\ Finished(j, "verify") /\ Genuine /\ Usable(pub, job[j].task) => job[j].ok
        /\ Finished(j, "checksum") => (job[j].ok <=> data = Original)
        /\ Finished(j, "keygen") /\ job[j].ok => priv \in Key /\ pub = priv
        /\ Finished(j, "sign") /\ job[j].ok => sig = Signature(priv, data)

\* A signature that verifies was made with the key and over the bytes of the
\* verification, whatever was written, truncated, half written or killed in between.
Made == {job[j].buffer : j \in {i \in Job : job[i].task # Missing /\ job[i].task.cmd = "sign"}}
AcceptedWasSigned ==
    \A j \in Job : Finished(j, "verify") /\ job[j].ok =>
        \/ job[j].buffer \in Made
        \/ job[j].read = Original

\* signFile does not report success while the file still holds an older signature:
\* it is the new one, or visibly broken. (The library does not promise that.)
NoStaleSignature ==
    \A j \in Job :
        j \in alone /\ Finished(j, "sign") /\ job[j].task.by = "tool" /\ job[j].ok =>
            sig \in {Broken, Signature(priv, job[j].read)}

\* README-signFile.md:14-25 makes an Ed25519 pair, the default, and signs with it,
\* naming the algorithm: signFile reports success when no call fails for a reason
\* of its own.
DefaultKeySigns ==
    \A j \in Job :
        /\ Finished(j, "sign") /\ ~job[j].fault /\ job[j].task.by = "tool"
        /\ job[j].key \in Key /\ Type[job[j].key] = "ed25519" /\ job[j].task.algo = "ed25519"
        => job[j].ok

=============================================================================
