------------------------------- MODULE Prover -------------------------------
(***************************************************************************)
(* The prover service (prover/src/main.rs).  Each request writes its       *)
(* witness to a file of its own, runs `sunspot prove`, and reads the proof *)
(* and the public witness from two files every request shares: sunspot     *)
(* puts them next to the circuit.  Requests run concurrently; sunspot is a *)
(* process of its own, writes the two files one after the other, and runs  *)
(* on when the caller hangs up and the request is dropped.                 *)
(*                                                                         *)
(* A proof is the request whose witness it was made from.                  *)
(***************************************************************************)
EXTENDS Integers, FiniteSets

CONSTANTS
    Requests,
    Nothing,         \* a file that was never written
    MaxFailures      \* bound on calls that fail or callers that hang up

ASSUME ProverAssumption == MaxFailures \in Nat /\ Nothing \notin Requests

VARIABLES
    pc,         \* where the handler of each request is
    sunspot,    \* where the process it started is
    proof, pw,  \* target/withdrawal.proof and target/withdrawal.pw
    witnesses,  \* the requests whose witness is in the temporary directory
    answer,     \* what each request has read of the shared files
    failures,
    earlier,    \* history: the requests that were over when each one began
    cut         \* history: the requests that gave up, or whose removal failed

history == <<earlier, cut>>
vars == <<pc, sunspot, proof, pw, witnesses, answer, failures, history>>

NoAnswer == [proof |-> Nothing, public_witness |-> Nothing]

Init ==
    /\ pc = [r \in Requests |-> "new"]
    /\ sunspot = [r \in Requests |-> "off"]
    /\ proof = Nothing /\ pw = Nothing
    /\ answer = [r \in Requests |-> NoAnswer]
    /\ failures = 0
    /\ witnesses = {}
    /\ earlier = [r \in Requests |-> {}]
    /\ cut = {}

Goto(r, place) == pc' = [pc EXCEPT ![r] = place]
SunspotGoto(r, place) == sunspot' = [sunspot EXCEPT ![r] = place]

Fails == failures < MaxFailures /\ failures' = failures + 1

\* Answered or failed, and nothing of it runs any more.
Over(r) == pc[r] \in {"answered", "failed"} /\ sunspot[r] \notin {"proof", "pw"}

-----------------------------------------------------------------------------
(***************************************************************************)
(* The handler.                                                            *)
(***************************************************************************)

\* The witness is decoded and written under a fresh name.
WriteWitness(r) ==
    /\ pc[r] = "new"
    /\ earlier' = [earlier EXCEPT ![r] = {q \in Requests : Over(q)}]
    /\ witnesses' = witnesses \cup {r}
    /\ Goto(r, "spawn")
    /\ UNCHANGED <<sunspot, proof, pw, answer, failures, cut>>

Spawn(r) ==
    /\ pc[r] = "spawn"
    /\ Goto(r, "wait")
    /\ SunspotGoto(r, "proof")
    /\ UNCHANGED <<proof, pw, witnesses, answer, failures, history>>

\* Mutant: the exit status is not looked at.
AfterError_ignored == "read"

\* A status other than success ends the request, before the files are read.
AfterError == "failed"

\* Mutant: the witness is removed after a status of success.
Remaining_success(r) == IF sunspot[r] = "ok" THEN witnesses \ {r} ELSE witnesses

Remaining(r) == witnesses \ {r}

\* sunspot is over: the witness is removed, and an error of that passes over; then
\* the status is looked at.
Collect(r) ==
    /\ pc[r] = "wait"
    /\ \/ witnesses' = Remaining(r) /\ UNCHANGED <<failures, cut>>
       \/ Fails /\ cut' = cut \cup {r} /\ UNCHANGED witnesses
    /\ \/ sunspot[r] = "ok" /\ Goto(r, "read")
       \/ sunspot[r] = "error" /\ Goto(r, AfterError)
    /\ UNCHANGED <<sunspot, proof, pw, answer, earlier>>

ReadProof(r) ==
    /\ pc[r] = "read"
    /\ answer' = [answer EXCEPT ![r].proof = proof]
    /\ Goto(r, "read_pw")
    /\ UNCHANGED <<sunspot, proof, pw, witnesses, failures, history>>

ReadPublicWitness(r) ==
    /\ pc[r] = "read_pw"
    /\ answer' = [answer EXCEPT ![r].public_witness = pw]
    /\ Goto(r, "answered")
    /\ UNCHANGED <<sunspot, proof, pw, witnesses, failures, history>>

\* A call returns an error, or the caller hangs up: the handler ends where it
\* is.  A sunspot it has started is not stopped; a witness being written may be
\* there, or a part of it.
GiveUp(r) ==
    /\ pc[r] \in {"new", "spawn", "wait", "read", "read_pw"}
    /\ Fails
    /\ cut' = cut \cup {r}
    /\ \/ UNCHANGED witnesses
       \/ pc[r] = "new" /\ witnesses' = witnesses \cup {r}
    /\ Goto(r, "failed")
    /\ UNCHANGED <<sunspot, proof, pw, answer, earlier>>

-----------------------------------------------------------------------------
(***************************************************************************)
(* sunspot: the proof is written, then the public witness.                 *)
(***************************************************************************)

WriteProof(r) ==
    /\ sunspot[r] = "proof"
    /\ proof' = r
    /\ SunspotGoto(r, "pw")
    /\ UNCHANGED <<pc, pw, witnesses, answer, failures, history>>

WritePublicWitness(r) ==
    /\ sunspot[r] = "pw"
    /\ pw' = r
    /\ SunspotGoto(r, "ok")
    /\ UNCHANGED <<pc, proof, witnesses, answer, failures, history>>

\* The witness does not satisfy the circuit, or the process dies.
ProveFails(r) ==
    /\ sunspot[r] \in {"proof", "pw"}
    /\ Fails
    /\ SunspotGoto(r, "error")
    /\ UNCHANGED <<pc, proof, pw, witnesses, answer, history>>

Handle(r) ==
    \/ WriteWitness(r) \/ Spawn(r) \/ Collect(r)
    \/ ReadProof(r) \/ ReadPublicWitness(r) \/ GiveUp(r)

Sunspot(r) == WriteProof(r) \/ WritePublicWitness(r) \/ ProveFails(r)

Next == \E r \in Requests : Handle(r) \/ Sunspot(r)

Spec == Init /\ [][Next]_vars

-----------------------------------------------------------------------------
(***************************************************************************)
(* Properties.                                                             *)
(***************************************************************************)

Answered(r) == pc[r] = "answered"

\* A request is answered with the proof of its own witness and the public
\* witness that goes with it ("receives a Groth16 proof", README.md:63-64;
\* "reads withdrawal.proof and withdrawal.pw", architecture.md:186-190).
OwnProof ==
    \A r \in Requests :
        Answered(r) => answer[r] = [proof |-> r, public_witness |-> r]

\* An answer is made of what ran beside the request: neither a failed run of
\* sunspot nor a caller that hung up lets the files of an older request out.  A
\* request that runs alone is answered with its own proof (main.rs:44-85).
NoStaleProof ==
    \A r \in Requests :
        Answered(r) => {answer[r].proof, answer[r].public_witness}
                            \cap (earlier[r] \cup {Nothing}) = {}

\* A witness, which holds the secrets of a note, outlives its request only if the
\* handler was cut short, sunspot could not be started, or the removal itself
\* failed: a proof that fails does not leave one (main.rs:44-71).
WitnessesRemoved ==
    \A r \in witnesses : pc[r] \in {"answered", "failed"} => r \in cut
=============================================================================
