---------------------------- MODULE ModelBundle ----------------------------
(***************************************************************************)
(* The MT model shared by sessions of different configurations:            *)
(* TextMTEngine._ensure_bundle and run_serialized_sync (mt_server.py), the *)
(* fingerprint and heads-path bookkeeping of                               *)
(* LoadedModelBundle.ensure_mt_backend                                     *)
(* (runtime.py), and what load and refresh_alignatt_artifacts of           *)
(* mt/gemma_vllm_backend.py bind: the heads, the decoder policy's          *)
(* configuration, and the heads the vLLM worker's observer captures.       *)
(* The calls are serialized by the one-worker executor (MTServer.tla).     *)
(***************************************************************************)
EXTENDS Naturals

CONSTANTS
  Sessions,     \* sessions open on the engine
  Prints,       \* values of mt_backend_fingerprint()
  Validating,   \* those whose backend checks the heads it has loaded; Gemma's does not
  HeadsPaths,   \* values of translation_alignatt_heads_path: the directions
  Knobs,        \* the per-session acceptance knobs (CLIENT_OVERRIDE_WHITELIST)
  MaxFaults,    \* bound: loads and refreshes that raise
  None

Configs == [print : Prints, heads : HeadsPaths, knobs : Knobs]

ASSUME ModelBundleAssumption == MaxFaults \in Nat /\ None \notin Configs

VARIABLES
  config,       \* each session's CascadeRuntimeConfig, fixed by its init
  opened,       \* the sessions that new_session has returned
  bundle,       \* TextMTEngine._bundle: its config, or None
  backend,      \* LoadedModelBundle.mt_backend: what it and its policy hold
  fp,           \* LoadedModelBundle._mt_backend_fp
  heads_path,   \* LoadedModelBundle._mt_heads_path
  call,         \* the call on the executor: whose it is and how far
  torn,         \* history: a rebuild or a refresh failed halfway, none succeeded since
  faults

vars == <<config, opened, bundle, backend, fp, heads_path, call, torn, faults>>

NoBackend == [loaded |-> FALSE, print |-> None, runtime_config |-> None,
              alignatt_heads |-> None, policy_config |-> None, captured |-> None]

\* build_mt_backend: a backend that is not loaded yet.
Built(c) == [NoBackend EXCEPT !.print = c.print, !.runtime_config = c]

\* load: heads from the config, the observer bootstrapped with these heads, and a
\* policy that holds its own reference to the config.
load(b) == [b EXCEPT !.loaded = TRUE, !.alignatt_heads = b.runtime_config.heads,
                     !.captured = b.runtime_config.heads, !.policy_config = b.runtime_config]

\* Mutants: the policy keeps its reference; only the policy is rebound; the config
\* is taken for the heads.
RefreshKeepsPolicy(b) == [b EXCEPT !.alignatt_heads = b.runtime_config.heads]
RefreshPolicyOnly(b) ==
  [b EXCEPT !.policy_config = IF b.loaded THEN b.runtime_config ELSE @]
RefreshUnread(b) == [b EXCEPT !.alignatt_heads = b.runtime_config]

\* refresh_alignatt_artifacts: other heads, and the policy, if there is one, rebound.
\* The observer in the worker is left as it is.
refresh_alignatt_artifacts(b) ==
  [b EXCEPT !.alignatt_heads = b.runtime_config.heads,
            !.policy_config = IF b.loaded THEN b.runtime_config ELSE @]

NoCall == [of |-> None, stage |-> "idle"]

Init ==
  /\ config \in [Sessions -> Configs] /\ opened = {}
  /\ bundle = None /\ backend = NoBackend /\ fp = None /\ heads_path = None
  /\ call = NoCall /\ torn = FALSE /\ faults = 0

\* new_session runs on the event loop, also while a call is on the executor.  The
\* first one makes the bundle and loads its backend.
NewSession(s) ==
  /\ s \notin opened /\ opened' = opened \cup {s}
  /\ IF bundle = None
       THEN /\ bundle' = config[s] /\ backend' = load(Built(config[s]))
            /\ fp' = config[s].print /\ heads_path' = config[s].heads
       ELSE UNCHANGED <<bundle, backend, fp, heads_path>>
  /\ UNCHANGED <<config, call, torn, faults>>

\* That first load raises: the bundle is thrown away with its backend.
FirstLoadFails(s) ==
  /\ s \notin opened /\ bundle = None /\ faults < MaxFaults
  /\ faults' = faults + 1
  /\ UNCHANGED <<config, opened, bundle, backend, fp, heads_path, call, torn>>

\* run_serialized_sync: the bundle is pointed at the session's config.
Swap(s) ==
  /\ call = NoCall /\ s \in opened
  /\ bundle' = config[s]
  /\ call' = [of |-> s, stage |-> "swapped"]
  /\ UNCHANGED <<config, opened, backend, fp, heads_path, torn, faults>>

\* ensure_mt_backend under another fingerprint: a new backend is built and loaded,
\* and only then recorded.
Rebuild ==
  /\ call.stage = "swapped" /\ fp # bundle.print
  /\ backend' = load(Built(bundle))
  /\ fp' = bundle.print /\ heads_path' = bundle.heads
  /\ call' = [call EXCEPT !.stage = "running"] /\ torn' = FALSE
  /\ UNCHANGED <<config, opened, bundle, faults>>

\* The mt_backend attribute is assigned before load is called, which may raise
\* before or after it has read the heads.
RebuildFails ==
  /\ call.stage = "swapped" /\ fp # bundle.print /\ faults < MaxFaults
  /\ \E heads \in {None, bundle.heads} :
       backend' = [Built(bundle) EXCEPT !.alignatt_heads = heads]
  /\ call' = NoCall /\ torn' = TRUE /\ faults' = faults + 1
  /\ UNCHANGED <<config, opened, bundle, fp, heads_path>>

\* ensure_mt_backend, same fingerprint: the backend gets the config, and new
\* artifacts when the heads path is another one.
Reuse ==
  /\ call.stage = "swapped" /\ fp = bundle.print
  /\ LET b == [backend EXCEPT !.runtime_config = bundle]
     IN  backend' = IF bundle.heads # heads_path THEN refresh_alignatt_artifacts(b) ELSE b
  /\ heads_path' = bundle.heads
  /\ call' = [call EXCEPT !.stage = "running"]
  /\ UNCHANGED <<config, opened, bundle, fp, torn, faults>>

\* The heads file cannot be read: the config is swapped, the heads are not.
RefreshFails ==
  /\ call.stage = "swapped" /\ fp = bundle.print /\ bundle.heads # heads_path
  /\ faults < MaxFaults
  /\ backend' = [backend EXCEPT !.runtime_config = bundle]
  /\ call' = NoCall /\ faults' = faults + 1
  /\ UNCHANGED <<config, opened, bundle, fp, heads_path, torn>>

\* The heads do not fit the model: they are rejected after they were assigned.
RefreshRejected ==
  /\ call.stage = "swapped" /\ fp = bundle.print /\ bundle.heads # heads_path
  /\ fp \in Validating /\ faults < MaxFaults
  /\ backend' = [backend EXCEPT !.runtime_config = bundle, !.alignatt_heads = bundle.heads]
  /\ call' = NoCall /\ torn' = TRUE /\ faults' = faults + 1
  /\ UNCHANGED <<config, opened, bundle, fp, heads_path>>

\* fn() returns or raises; translate itself calls ensure_mt_backend again, with the
\* same bundle.config, and changes nothing.
Return ==
  /\ call.stage = "running"
  /\ call' = NoCall
  /\ UNCHANGED <<config, opened, bundle, backend, fp, heads_path, torn, faults>>

Next ==
  \/ \E s \in Sessions : NewSession(s) \/ FirstLoadFails(s) \/ Swap(s)
  \/ Rebuild \/ RebuildFails \/ Reuse \/ RefreshFails \/ RefreshRejected \/ Return

Spec == Init /\ [][Next]_vars

-----------------------------------------------------------------------------
(* Properties.                                                             *)

Backends == [loaded : BOOLEAN, print : Prints \cup {None}, runtime_config : Configs \cup {None},
             alignatt_heads : HeadsPaths \cup {None}, policy_config : Configs \cup {None},
             captured : HeadsPaths \cup {None}]

\* Every variable keeps its type: the fields of bundle, backend and executor call.
TypeOK ==
  /\ config \in [Sessions -> Configs] /\ opened \subseteq Sessions
  /\ bundle \in Configs \cup {None} /\ backend \in Backends
  /\ fp \in Prints \cup {None} /\ heads_path \in HeadsPaths \cup {None}
  /\ call \in [of : Sessions, stage : {"swapped", "running"}] \cup {NoCall}
  /\ torn \in BOOLEAN /\ faults \in Nat

Running(s) == call = [of |-> s, stage |-> "running"]

\* A session's call runs on a loaded engine of its fingerprint, with its own config
\* and the calibrated heads of its direction, whichever sessions ran before, opened
\* meanwhile, or failed to load or to read their heads, as long as no failure left
\* the backend half assigned.
RunsOwnConfig ==
  \A s \in Sessions : Running(s) /\ ~torn =>
    /\ backend.loaded /\ backend.print = config[s].print
    /\ backend.runtime_config = config[s]
    /\ backend.alignatt_heads = config[s].heads

\* The decoder policy, too, aligns with the direction of the session it runs for: a
\* change of direction rebinds it.
PolicyOfDirection ==
  \A s \in Sessions : Running(s) /\ ~torn =>
    backend.policy_config.heads = config[s].heads

\* The knobs the decoder policy applies are those of the session it runs for
\* ("overrides (optional): per-session knobs", docs/mt_server_protocol.md:47).
PolicyOfSession ==
  \A s \in Sessions : Running(s) => backend.policy_config.knobs = config[s].knobs
=============================================================================
