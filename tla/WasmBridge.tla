----------------------------- MODULE WasmBridge -----------------------------
(***************************************************************************)
(* The SDK's calls into the ML-DSA wasm module (sdk/src/crypto.ts, and     *)
(* computeLockArgs of sdk/src/hash.ts): asynchronous callers share one     *)
(* instance, loaded on first use, and each call copies its inputs into     *)
(* blocks of the instance's memory, calls an export, reads the outputs and *)
(* gives the blocks back.                                                  *)
(*                                                                         *)
(* A caller may reuse its own buffer as soon as it has the promise.  What  *)
(* the call sees of that depends on the type of the input: toBytes copies  *)
(* a Uint8Array or an array, but wraps an ArrayBuffer in a view.  Once     *)
(* the instance is there a call runs to its end without another one in     *)
(* between.  The wasm module itself is external: an allocation may trap,   *)
(* and may grow the memory, which detaches every earlier view of it; an    *)
(* export returns a status.                                                *)
(***************************************************************************)
EXTENDS Naturals, Sequences, FiniteSets

CONSTANTS
    Callers,        \* each makes one call
    Contents        \* what a caller's buffer may hold; "short" has a wrong length

VARIABLES
    api,            \* wasmApiPromise: "undefined", "pending", "ready" or "rejected"
    buffer,         \* each caller's own buffer
    call,           \* each caller's call
    live            \* blocks of wasm memory allocated: <<caller, name>>

bridgeVars == <<api, buffer, call, live>>

Kinds == {"generateKeypair", "computeLockArgs", "ckbHash", "signTxHash", "verifySignature"}

(* The types of input the SDK takes.                                       *)
ByteLike == {"Uint8Array", "ArrayBuffer", "ArrayLike"}

(* The output blocks, and the inputs in the order withInput nests them.    *)
Outs == [generateKeypair |-> <<"publicKey", "secretKey">>, computeLockArgs |-> <<"output">>,
         ckbHash |-> <<"output">>, signTxHash |-> <<"output">>, verifySignature |-> <<>>]
Ins == [generateKeypair |-> <<"seed">>, computeLockArgs |-> <<"publicKeyIn">>,
        ckbHash |-> <<"data">>,
        signTxHash |-> <<"secretKeyIn", "message", "seed">>,
        verifySignature |-> <<"publicKeyIn", "message", "signature">>]

NoCall == [phase |-> "idle"]
Running == {c \in Callers : call[c].phase \in {"run", "unwind"}}

BridgeInit ==
    /\ api = "undefined"
    /\ buffer \in [Callers -> Contents]
    /\ call = [c \in Callers |-> NoCall]
    /\ live = {}

-----------------------------------------------------------------------------
(* The promise of the instance.                                            *)

getWasmApi == api' = IF api = "undefined" THEN "pending" ELSE api

instantiateWasm ==
    /\ api = "pending"
    /\ api' = "ready"
    /\ UNCHANGED <<buffer, call, live>>

LoadFails ==
    /\ api = "pending"
    /\ api' = "rejected"
    /\ UNCHANGED <<buffer, call, live>>

-----------------------------------------------------------------------------
(* The exported functions, up to and after their await.                    *)

(* A call remembers what its input held when it was made (given) and what  *)
(* of it has reached the instance so far (copied).                         *)
Begun(kind, form, given) ==
    [phase |-> "await", kind |-> kind, form |-> form, given |-> given, copied |-> {},
     outs |-> 0, ins |-> 0, outcome |-> "none", cause |-> "none"]
End(c, phase, how, cause) ==
    call' = [call EXCEPT ![c].phase = phase, ![c].outcome = how, ![c].cause = cause]

(* The inputs go through toBytes and their lengths are checked before the  *)
(* await.                                                                  *)
ChecksLength(kind) == kind \in {"signTxHash", "verifySignature"}
Call(c) ==
    /\ call[c] = NoCall
    /\ \E kind \in Kinds, form \in ByteLike :
         LET begun == Begun(kind, form, buffer[c]) IN
         IF ChecksLength(kind) /\ buffer[c] = "short"
         THEN /\ call' = [call EXCEPT ![c] = [begun EXCEPT !.phase = "done", !.outcome = "throws",
                                                           !.cause = "length"]]
              /\ UNCHANGED api
         ELSE /\ call' = [call EXCEPT ![c] = begun]
              /\ getWasmApi
    /\ UNCHANGED <<buffer, live>>

Resume(c) ==
    /\ call[c].phase = "await" /\ Running = {} /\ api = "ready"
    /\ call' = [call EXCEPT ![c].phase = "run"]
    /\ UNCHANGED <<api, buffer, live>>

(* Mutant: the rejection is swallowed and the caller left waiting.         *)
Rejected_Swallowed(c) == call[c].phase = "await" /\ api = "rejected" /\ UNCHANGED bridgeVars
Rejected(c) ==
    /\ call[c].phase = "await" /\ api = "rejected"
    /\ End(c, "done", "throws", "load")
    /\ UNCHANGED <<api, buffer, live>>

(* The caller goes on with its buffer.                                     *)
Reuse(c) ==
    /\ call[c].phase = "await" /\ Running = {}
    /\ \E new \in Contents \ {buffer[c]} : buffer' = [buffer EXCEPT ![c] = new]
    /\ UNCHANGED <<api, call, live>>

-----------------------------------------------------------------------------
(* A call into the instance, block by block.                               *)

OutsOf(c) == Outs[call[c].kind]
InsOf(c) == Ins[call[c].kind]

(* Outputs are allocated before the try: a trap leaves those already made. *)
AllocOutput(c) ==
    /\ call[c].phase = "run" /\ call[c].outs < Len(OutsOf(c))
    /\ \/ /\ live' = live \cup {<<c, OutsOf(c)[call[c].outs + 1]>>}
          /\ call' = [call EXCEPT ![c].outs = @ + 1]
       \/ /\ End(c, "done", "throws", "alloc")
          /\ UNCHANGED live
    /\ UNCHANGED <<api, buffer>>

NextInput(c) == <<c, InsOf(c)[call[c].ins + 1]>>
TakesInput(c) == call[c].phase = "run" /\ call[c].outs = Len(OutsOf(c)) /\ call[c].ins < Len(InsOf(c))

(* What the result of toBytes shows when it is read: the copy made with    *)
(* the call, or through a view whatever the caller's buffer holds by now.  *)
(* Mutant: a Uint8Array is handed on as it is.                             *)
toBytes_NoCopy(c) == IF call[c].form = "ArrayLike" THEN call[c].given ELSE buffer[c]
toBytes(c) == IF call[c].form = "ArrayBuffer" THEN buffer[c] ELSE call[c].given

(* The seed is the SDK's own; every other input is the caller's.           *)
Shown(c) == IF NextInput(c)[2] = "seed" THEN {} ELSE {toBytes(c)}

(* Mutant: the view of the memory is taken before alloc, which may grow it; *)
(* set then throws outside the try.                                        *)
withInput_ViewFirst(c) ==
    /\ TakesInput(c)
    /\ \/ /\ live' = live \cup {NextInput(c)}
          /\ call' = [call EXCEPT ![c].ins = @ + 1]
       \/ live' = live \cup {NextInput(c)} /\ End(c, "unwind", "throws", "view")
    /\ UNCHANGED <<api, buffer>>
withInput(c) ==
    /\ TakesInput(c)
    /\ \/ /\ live' = live \cup {NextInput(c)}
          /\ call' = [call EXCEPT ![c].ins = @ + 1, ![c].copied = @ \cup Shown(c)]
       \/ End(c, "unwind", "throws", "alloc") /\ UNCHANGED live
    /\ UNCHANGED <<api, buffer>>

(* Statuses: 0, the refused signature (4), any other error; a hash of a    *)
(* wrong length, which is noticed after the blocks are back, throws too.   *)
Export(c) ==
    /\ call[c].phase = "run" /\ call[c].outs = Len(OutsOf(c)) /\ call[c].ins = Len(InsOf(c))
    /\ \/ End(c, "unwind", "returns", "none")
       \/ /\ call[c].kind = "verifySignature"
          /\ End(c, "unwind", "returns false", "none")
       \/ End(c, "unwind", "throws", "status")
    /\ UNCHANGED <<api, buffer, live>>

(* The finally clauses, from the innermost input out to the outputs.       *)
DeallocInput(c) ==
    /\ call[c].phase = "unwind" /\ call[c].ins > 0
    /\ live' = live \ {<<c, InsOf(c)[call[c].ins]>>}
    /\ call' = [call EXCEPT ![c].ins = @ - 1]
    /\ UNCHANGED <<api, buffer>>

DeallocOutputs(c) ==
    /\ call[c].phase = "unwind" /\ call[c].ins = 0
    /\ live' = live \ {<<c, OutsOf(c)[i]>> : i \in 1..Len(OutsOf(c))}
    /\ call' = [call EXCEPT ![c].phase = "done", ![c].outs = 0]
    /\ UNCHANGED <<api, buffer>>

Step(c) == Resume(c) \/ Rejected(c) \/ AllocOutput(c) \/ withInput(c) \/ Export(c)
           \/ DeallocInput(c) \/ DeallocOutputs(c)
Settled == \A c \in Callers : call[c].phase = "done"
Stop == Settled /\ UNCHANGED bridgeVars

BridgeNext == instantiateWasm \/ LoadFails \/ (\E c \in Callers : Call(c) \/ Reuse(c) \/ Step(c)) \/ Stop
BridgeSpec == BridgeInit /\ [][BridgeNext]_bridgeVars
(* The event loop runs what is ready, and reading the file ends.           *)
FairBridgeSpec == BridgeSpec /\ WF_bridgeVars(instantiateWasm \/ LoadFails) /\ \A c \in Callers : WF_bridgeVars(Step(c))

-----------------------------------------------------------------------------
(* What a call hands to the instance is what its caller's input held when  *)
(* the call was made, whatever the caller writes to it while the module    *)
(* loads, when the input is a Uint8Array or an array: toBytes has copied   *)
(* it.  An ArrayBuffer is not copied, and its call works on what the       *)
(* caller left there; but it reads all of its inputs at one moment.        *)
WorksOnTheBytesGiven ==
    \A c \in Callers : call[c] # NoCall =>
        /\ call[c].form # "ArrayBuffer" => call[c].copied \subseteq {call[c].given}
        /\ \A x, y \in call[c].copied : x = y

(* Between calls no block is left, but for a public key block whose secret *)
(* key block could not be allocated (both come before the try).            *)
NoBlockIsLeft ==
    Running = {} => \A b \in live : b[2] = "publicKey" /\ call[b[1]].cause = "alloc"

(* Every call that waits for the module settles, also when loading fails. *)
EveryCallSettles == \A c \in Callers : (call[c].phase = "await") ~> (call[c].phase = "done")
=============================================================================
