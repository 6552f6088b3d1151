------------------------------- MODULE MCSigning ------------------------------
(* Signing with an RSA pair, another to generate, and an Ed25519 pair.       *)
EXTENDS Signing, TLC

CONSTANTS r1, r2, e1, old, new

MCType == r1 :> "rsa" @@ r2 :> "rsa" @@ e1 :> "ed25519"
Command(cmd, by, algo) == [cmd |-> cmd, by |-> by, algo |-> algo]

MCTasks == {Command("sign", "tool", "rsa"), Command("sign", "library", "rsa"),
            Command("verify", "tool", "rsa"), Command("verify", "library", "rsa"),
            Command("sign", "tool", "omitted"), Command("verify", "library", "ed25519"),
            Command("keygen", "tool", "rsa"), Command("checksum", "library", "omitted")}
\* As README-signFile.md does it.
Ed25519Tasks == {Command("keygen", "tool", "ed25519"), Command("sign", "tool", "ed25519")}

MCSymmetry == Permutations(Job) \cup Permutations({r1, r2})

=============================================================================
