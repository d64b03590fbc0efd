------------------------ MODULE ModelBundle_proofs ------------------------
(* Theorems about ModelBundle, for every set of sessions and configurations. *)
EXTENDS ModelBundle, TLAPS

(* Before the first session there is no call. *)
Unopened == bundle = None => opened = {} /\ call = NoCall

(* Between calls the backend is whole: loaded, of the recorded fingerprint, its heads
   and its policy's direction those of the recorded heads path. *)
Whole ==
  bundle # None /\ ~torn =>
    /\ backend.loaded /\ backend.print = fp
    /\ backend.alignatt_heads = heads_path
    /\ backend.policy_config \in Configs /\ backend.policy_config.heads = heads_path

(* A call on the executor finds the bundle pointed at its session's config. *)
CallOwnsBundle == call # NoCall => call.of \in Sessions /\ bundle = config[call.of]

(* What a call that runs has been given. *)
RunningBound ==
  call.stage = "running" /\ ~torn =>
    backend.runtime_config = bundle /\ fp = bundle.print /\ heads_path = bundle.heads

IndInv == TypeOK /\ Unopened /\ Whole /\ CallOwnsBundle /\ RunningBound

(* Nothing is open and nothing runs at first. *)
LEMMA InitInv == Init => IndInv
<1> SUFFICES ASSUME Init PROVE IndInv  OBVIOUS
<1>1. TypeOK  BY DEF Init, TypeOK, Backends, NoBackend, NoCall
<1>2. Unopened /\ Whole /\ CallOwnsBundle /\ RunningBound
  BY DEF Init, Unopened, Whole, CallOwnsBundle, RunningBound, NoCall
<1> QED  BY <1>1, <1>2 DEF IndInv

(* A loaded backend of a config c is typed, whole and bound to c. *)
LEMMA LoadBinds ==
  ASSUME NEW c \in Configs
  PROVE  LET b == load(Built(c))
         IN  /\ b \in Backends /\ b.loaded /\ b.print = c.print /\ b.runtime_config = c
             /\ b.alignatt_heads = c.heads /\ b.policy_config = c
BY DEF load, Built, NoBackend, Backends, Configs

(* So is a loaded backend that is given the config and refreshed. *)
LEMMA RefreshBinds ==
  ASSUME NEW c \in Configs, NEW b \in Backends
  PROVE  LET r == refresh_alignatt_artifacts([b EXCEPT !.runtime_config = c])
         IN  /\ r \in Backends /\ r.loaded = b.loaded /\ r.print = b.print
             /\ r.runtime_config = c /\ r.alignatt_heads = c.heads
             /\ b.loaded => r.policy_config = c
BY DEF refresh_alignatt_artifacts, Backends, Configs

(* A session opens: the first loads the backend, the others change nothing of it. *)
LEMMA NewSessionInv ==
  ASSUME IndInv, NEW s \in Sessions, NewSession(s) PROVE IndInv'
<1>1. config[s] \in Configs /\ config' = config /\ call' = call /\ torn' = torn
      /\ opened' = opened \cup {s} /\ faults' = faults
  BY DEF NewSession, IndInv, TypeOK
<1>2. CASE bundle = None
  <2>1. /\ bundle' = config[s] /\ backend' = load(Built(config[s]))
        /\ fp' = config[s].print /\ heads_path' = config[s].heads
    BY <1>2 DEF NewSession
  <2>2. call = NoCall  BY <1>2 DEF IndInv, Unopened
  <2>3. /\ backend' \in Backends /\ backend'.loaded /\ backend'.print = config[s].print
        /\ backend'.alignatt_heads = config[s].heads /\ backend'.policy_config = config[s]
    BY <1>1, <2>1, LoadBinds
  <2>4. config[s].print \in Prints /\ config[s].heads \in HeadsPaths  BY <1>1 DEF Configs
  <2>5. TypeOK'  BY <1>1, <2>1, <2>3, <2>4 DEF IndInv, TypeOK
  <2>6. Whole'  BY <1>1, <2>1, <2>3 DEF Whole
  <2>7. Unopened'  BY <1>1, <2>1, ModelBundleAssumption DEF Unopened
  <2>8. CallOwnsBundle' /\ RunningBound'
    BY <1>1, <2>2 DEF CallOwnsBundle, RunningBound, NoCall
  <2> QED  BY <2>5, <2>6, <2>7, <2>8 DEF IndInv
<1>3. CASE bundle # None
  <2>1. bundle' = bundle /\ backend' = backend /\ fp' = fp /\ heads_path' = heads_path
    BY <1>3 DEF NewSession
  <2> QED
    BY <1>1, <1>3, <2>1 DEF IndInv, TypeOK, Unopened, Whole, CallOwnsBundle, RunningBound
<1> QED  BY <1>2, <1>3

(* A call begins: only the bundle's config changes. *)
LEMMA SwapInv == ASSUME IndInv, NEW s \in Sessions, Swap(s) PROVE IndInv'
<1>1. /\ config[s] \in Configs /\ bundle' = config[s] /\ s \in opened
      /\ call' = [of |-> s, stage |-> "swapped"]
      /\ config' = config /\ opened' = opened /\ backend' = backend /\ fp' = fp
      /\ heads_path' = heads_path /\ torn' = torn /\ faults' = faults
  BY DEF Swap, IndInv, TypeOK
<1>2. bundle # None  BY <1>1 DEF IndInv, Unopened
<1>3. TypeOK'  BY <1>1 DEF IndInv, TypeOK
<1>4. Unopened'  BY <1>1, ModelBundleAssumption DEF Unopened
<1>5. Whole'  BY <1>1, <1>2 DEF IndInv, Whole
<1>6. CallOwnsBundle' /\ RunningBound'  BY <1>1 DEF CallOwnsBundle, RunningBound
<1> QED  BY <1>3, <1>4, <1>5, <1>6 DEF IndInv

(* What a step of a swapped call knows: whose it is and what it runs with. *)
LEMMA SwappedCall ==
  ASSUME IndInv, call.stage = "swapped"
  PROVE  /\ call \in [of : Sessions, stage : {"swapped", "running"}] /\ call # NoCall
         /\ bundle \in Configs /\ bundle # None /\ bundle = config[call.of]
         /\ bundle.print \in Prints /\ bundle.heads \in HeadsPaths /\ backend \in Backends
<1>1. call # NoCall  BY DEF NoCall
<1>2. call \in [of : Sessions, stage : {"swapped", "running"}]  BY <1>1 DEF IndInv, TypeOK
<1>3. bundle = config[call.of] /\ config[call.of] \in Configs
  BY <1>1, <1>2 DEF IndInv, CallOwnsBundle, TypeOK
<1>4. bundle # None  BY <1>3, ModelBundleAssumption
<1>5. bundle.print \in Prints /\ bundle.heads \in HeadsPaths  BY <1>3 DEF Configs
<1> QED  BY <1>1, <1>2, <1>3, <1>4, <1>5 DEF IndInv, TypeOK

(* The call gets the backend it needs, rebuilt. *)
LEMMA RebuildInv == ASSUME IndInv, Rebuild PROVE IndInv'
<1>1. /\ call.stage = "swapped" /\ backend' = load(Built(bundle))
      /\ fp' = bundle.print /\ heads_path' = bundle.heads
      /\ call' = [call EXCEPT !.stage = "running"] /\ torn' = FALSE
      /\ config' = config /\ opened' = opened /\ bundle' = bundle /\ faults' = faults
  BY DEF Rebuild
<1>2. /\ call \in [of : Sessions, stage : {"swapped", "running"}] /\ call # NoCall
      /\ bundle \in Configs /\ bundle # None /\ bundle = config[call.of]
      /\ bundle.print \in Prints /\ bundle.heads \in HeadsPaths /\ backend \in Backends
  BY <1>1, SwappedCall
<1>3. /\ backend' \in Backends /\ backend'.loaded /\ backend'.print = bundle.print
      /\ backend'.runtime_config = bundle
      /\ backend'.alignatt_heads = bundle.heads /\ backend'.policy_config = bundle
  BY <1>1, <1>2, LoadBinds
<1>4. call' \in [of : Sessions, stage : {"swapped", "running"}] /\ call'.of = call.of
      /\ call'.stage = "running"
  BY <1>1, <1>2
<1>5. TypeOK'  BY <1>1, <1>2, <1>3, <1>4 DEF IndInv, TypeOK
<1>6. Whole' /\ RunningBound'  BY <1>1, <1>2, <1>3 DEF Whole, RunningBound
<1>7. Unopened' /\ CallOwnsBundle'
  BY <1>1, <1>2, <1>4 DEF Unopened, CallOwnsBundle
<1> QED  BY <1>5, <1>6, <1>7 DEF IndInv

(* The call reuses the backend: the artifacts are refreshed when the direction is
   another one, and are already those of the direction when it is not. *)
LEMMA ReuseInv == ASSUME IndInv, Reuse PROVE IndInv'
<1> DEFINE b == [backend EXCEPT !.runtime_config = bundle]
<1>1. /\ call.stage = "swapped" /\ fp = bundle.print
      /\ backend' = (IF bundle.heads # heads_path THEN refresh_alignatt_artifacts(b) ELSE b)
      /\ heads_path' = bundle.heads /\ call' = [call EXCEPT !.stage = "running"]
      /\ config' = config /\ opened' = opened /\ bundle' = bundle /\ fp' = fp
      /\ torn' = torn /\ faults' = faults
  BY DEF Reuse
<1>2. /\ call \in [of : Sessions, stage : {"swapped", "running"}] /\ call # NoCall
      /\ bundle \in Configs /\ bundle # None /\ bundle = config[call.of]
      /\ bundle.print \in Prints /\ bundle.heads \in HeadsPaths /\ backend \in Backends
  BY <1>1, SwappedCall
<1>3. /\ b \in Backends /\ b.loaded = backend.loaded /\ b.print = backend.print
      /\ b.runtime_config = bundle /\ b.alignatt_heads = backend.alignatt_heads
      /\ b.policy_config = backend.policy_config
  BY <1>2 DEF Backends
<1>4. /\ refresh_alignatt_artifacts(b) \in Backends
      /\ refresh_alignatt_artifacts(b).loaded = backend.loaded
      /\ refresh_alignatt_artifacts(b).print = backend.print
      /\ refresh_alignatt_artifacts(b).runtime_config = bundle
      /\ refresh_alignatt_artifacts(b).alignatt_heads = bundle.heads
      /\ backend.loaded => refresh_alignatt_artifacts(b).policy_config = bundle
  BY <1>2, RefreshBinds
<1> HIDE DEF b
<1>5. backend' \in Backends /\ backend'.runtime_config = bundle  BY <1>1, <1>3, <1>4
<1>6. call' \in [of : Sessions, stage : {"swapped", "running"}] /\ call'.of = call.of
      /\ call'.stage = "running"
  BY <1>1, <1>2
<1>7. TypeOK'  BY <1>1, <1>2, <1>5, <1>6 DEF IndInv, TypeOK
<1>8. Whole'
  <2> SUFFICES ASSUME ~torn
               PROVE  /\ backend'.loaded /\ backend'.print = fp
                      /\ backend'.alignatt_heads = bundle.heads
                      /\ backend'.policy_config \in Configs
                      /\ backend'.policy_config.heads = bundle.heads
    BY <1>1 DEF Whole
  <2>1. /\ backend.loaded /\ backend.print = fp /\ backend.alignatt_heads = heads_path
        /\ backend.policy_config \in Configs /\ backend.policy_config.heads = heads_path
    BY <1>2 DEF IndInv, Whole
  <2>2. CASE bundle.heads # heads_path  BY <2>1, <2>2, <1>1, <1>2, <1>4
  <2>3. CASE bundle.heads = heads_path  BY <2>1, <2>3, <1>1, <1>3
  <2> QED  BY <2>2, <2>3
<1>9. RunningBound'  BY <1>1, <1>5 DEF RunningBound
<1>10. Unopened' /\ CallOwnsBundle'
  BY <1>1, <1>2, <1>6 DEF Unopened, CallOwnsBundle
<1> QED  BY <1>7, <1>8, <1>9, <1>10 DEF IndInv

(* The steps that fail: the call is over, and either nothing of the backend but its
   config has changed, or the backend is torn. *)
LEMMA FailureInv ==
  ASSUME IndInv, RebuildFails \/ RefreshFails \/ RefreshRejected PROVE IndInv'
<1>1. /\ call.stage = "swapped" /\ call' = NoCall /\ faults' = faults + 1
      /\ config' = config /\ opened' = opened /\ bundle' = bundle
      /\ fp' = fp /\ heads_path' = heads_path
  BY DEF RebuildFails, RefreshFails, RefreshRejected
<1>2. /\ bundle \in Configs /\ bundle # None /\ bundle.heads \in HeadsPaths
      /\ bundle.print \in Prints /\ backend \in Backends
  BY <1>1, SwappedCall
<1>3. backend' \in Backends /\ torn' \in BOOLEAN
  <2>1. CASE RebuildFails
    BY <2>1, <1>2 DEF RebuildFails, Built, NoBackend, Backends
  <2>2. CASE RefreshFails  BY <2>2, <1>2 DEF RefreshFails, Backends, IndInv, TypeOK
  <2>3. CASE RefreshRejected  BY <2>3, <1>2 DEF RefreshRejected, Backends
  <2> QED  BY <2>1, <2>2, <2>3
<1>4. Whole'
  <2>1. CASE RebuildFails \/ RefreshRejected
    BY <2>1 DEF RebuildFails, RefreshRejected, Whole
  <2>2. CASE RefreshFails
    <3>1. backend' = [backend EXCEPT !.runtime_config = bundle] /\ torn' = torn
      BY <2>2 DEF RefreshFails
    <3> QED  BY <3>1, <1>1, <1>2 DEF IndInv, Whole, Backends
  <2> QED  BY <2>1, <2>2
<1>5. TypeOK'  BY <1>1, <1>2, <1>3 DEF IndInv, TypeOK
<1>6. Unopened' /\ CallOwnsBundle' /\ RunningBound'
  BY <1>1, <1>2 DEF Unopened, CallOwnsBundle, RunningBound, NoCall
<1> QED  BY <1>4, <1>5, <1>6 DEF IndInv

(* The call returns. *)
LEMMA ReturnInv == ASSUME IndInv, Return PROVE IndInv'
<1>1. call.stage = "running" /\ call' = NoCall
      /\ UNCHANGED <<config, opened, bundle, backend, fp, heads_path, torn, faults>>
  BY DEF Return
<1>2. call # NoCall  BY <1>1 DEF NoCall
<1> QED  BY <1>1, <1>2 DEF IndInv, TypeOK, Unopened, Whole, CallOwnsBundle, RunningBound, NoCall

(* The invariant holds of every behaviour of the engine. *)
THEOREM Invariance == Spec => []IndInv
<1>1. Init => IndInv  BY InitInv
<1>2. ASSUME IndInv, [Next]_vars PROVE IndInv'
  <2>1. CASE \E s \in Sessions : NewSession(s)  BY <2>1, <1>2, NewSessionInv
  <2>2. CASE \E s \in Sessions : FirstLoadFails(s)
    BY <2>2, <1>2 DEF FirstLoadFails, IndInv, TypeOK, Unopened, Whole, CallOwnsBundle, RunningBound
  <2>3. CASE \E s \in Sessions : Swap(s)  BY <2>3, <1>2, SwapInv
  <2>4. CASE Rebuild  BY <2>4, <1>2, RebuildInv
  <2>5. CASE Reuse  BY <2>5, <1>2, ReuseInv
  <2>6. CASE RebuildFails \/ RefreshFails \/ RefreshRejected  BY <2>6, <1>2, FailureInv
  <2>7. CASE Return  BY <2>7, <1>2, ReturnInv
  <2>8. CASE UNCHANGED vars
    BY <2>8, <1>2 DEF vars, IndInv, TypeOK, Unopened, Whole, CallOwnsBundle, RunningBound
  <2> QED  BY <1>2, <2>1, <2>2, <2>3, <2>4, <2>5, <2>6, <2>7, <2>8 DEF Next
<1> QED  BY <1>1, <1>2, PTL DEF Spec

(* The state of the engine is well typed. *)
THEOREM TypeCorrect == Spec => []TypeOK
<1>1. IndInv => TypeOK  BY DEF IndInv
<1> QED  BY <1>1, Invariance, PTL

(* Every call runs on an engine of its own fingerprint, config and direction, for any
   number of sessions, directions and failures that leave the backend whole. *)
THEOREM OwnConfig == Spec => []RunsOwnConfig
<1>1. IndInv => RunsOwnConfig
  <2> SUFFICES ASSUME IndInv, NEW s \in Sessions, Running(s), ~torn
               PROVE  /\ backend.loaded /\ backend.print = config[s].print
                      /\ backend.runtime_config = config[s]
                      /\ backend.alignatt_heads = config[s].heads
    BY DEF RunsOwnConfig
  <2>1. call # NoCall /\ call.of = s /\ call.stage = "running"  BY DEF Running, NoCall
  <2>2. bundle = config[s]  BY <2>1 DEF IndInv, CallOwnsBundle
  <2>3. bundle # None  BY <2>2, ModelBundleAssumption DEF IndInv, TypeOK
  <2> QED  BY <2>1, <2>2, <2>3 DEF IndInv, Whole, RunningBound
<1> QED  BY <1>1, Invariance, PTL

(* The decoder policy aligns with the direction of the session it runs for. *)
THEOREM OwnDirection == Spec => []PolicyOfDirection
<1>1. IndInv => PolicyOfDirection
  <2> SUFFICES ASSUME IndInv, NEW s \in Sessions, Running(s), ~torn
               PROVE  backend.policy_config.heads = config[s].heads
    BY DEF PolicyOfDirection
  <2>1. call # NoCall /\ call.of = s /\ call.stage = "running"  BY DEF Running, NoCall
  <2>2. bundle = config[s]  BY <2>1 DEF IndInv, CallOwnsBundle
  <2>3. bundle # None  BY <2>2, ModelBundleAssumption DEF IndInv, TypeOK
  <2> QED  BY <2>1, <2>2, <2>3 DEF IndInv, Whole, RunningBound
<1> QED  BY <1>1, Invariance, PTL
=============================================================================
