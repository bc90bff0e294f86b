---------------------------- MODULE MCDistribution ----------------------------
(***************************************************************************)
(* What happens to the results of a run, one kind of it per behaviour: the *)
(* publication of a report bundle and its readers (MCReportBundle), mcr    *)
(* verify over the evidence of one, the reading of one file below all of   *)
(* them, mcr verify-target with the writer of the target manifest, mcr     *)
(* oci-layout, and the conformance commands.                               *)
(***************************************************************************)
EXTENDS MCReportBundle, EvidenceBundle, VerifiedFile, TargetBundle, OciLayout, Conformance, TLC

CONSTANTS weights, engine, toolOutput, tampered

VARIABLE command

distributionVars ==
    <<command, vars, bundleVars, fileVars, targetVars, layoutVars, conformanceVars>>

DistributionInit ==
    /\ command \in {"publish", "verify", "read", "verify-target", "oci-layout", "conformance"}
    /\ Init /\ (command # "publish" => destination)
    /\ BundleInit /\ FileInit /\ TargetInit /\ LayoutInit /\ ConformanceInit

DistributionNext ==
    /\ UNCHANGED command
    /\ \/ /\ command = "publish" /\ Next
          /\ UNCHANGED <<bundleVars, fileVars, targetVars, layoutVars, conformanceVars>>
       \/ /\ command = "verify" /\ BundleNext
          /\ UNCHANGED <<vars, fileVars, targetVars, layoutVars, conformanceVars>>
       \/ /\ command = "read" /\ FileNext
          /\ UNCHANGED <<vars, bundleVars, targetVars, layoutVars, conformanceVars>>
       \/ /\ command = "verify-target" /\ TargetNext
          /\ UNCHANGED <<vars, bundleVars, fileVars, layoutVars, conformanceVars>>
       \/ /\ command = "oci-layout" /\ LayoutNext
          /\ UNCHANGED <<vars, bundleVars, fileVars, targetVars, conformanceVars>>
       \/ /\ command = "conformance" /\ ConformanceNext
          /\ UNCHANGED <<vars, bundleVars, fileVars, targetVars, layoutVars>>

DistributionSpec == DistributionInit /\ [][DistributionNext]_distributionVars

-----------------------------------------------------------------------------
(* The documents of one comparison of a model and the engine built from it *)

Binding(p, sha) == [uri |-> p, sha256 |-> sha]

Doc(kind, body, bound) ==
    [kind |-> kind, body |-> body, files |-> bound,
     id |-> <<kind, body, {b.sha256 : b \in bound}>>]

ModelManifest == Doc("snapshot-artifact-manifest", [snapshot |-> {weights}], {Binding("model", weights)})

EngineManifest == Doc("snapshot-artifact-manifest", [snapshot |-> {engine}], {Binding("engine", engine)})

Native == Doc("tool-native-evidence",
              [tool |-> "polygraphy", exit_code |-> 0, runners |-> {"onnxrt", "trt"}],
              {Binding("results", toolOutput)})

Backend(tool) ==
    Doc("backend-comparison",
        [native |-> Native.id, tool |-> tool, exit_code |-> 0, mismatches |-> 0,
         runners |-> {"onnxrt", "trt"}, baseline |-> {weights}, candidate |-> {engine}], {})

ModelBuild == Doc("build-provenance", [output |-> {weights}, outputs |-> {weights}, parent |-> NotThere], {})

EngineBuild == Doc("build-provenance",
                   [output |-> {engine}, outputs |-> {engine}, parent |-> ModelBuild.id], {})

Observed == Doc("observation", [case |-> "case-1"], {})

Custom == Doc("custom-trace", [case |-> "case-1"], {})

Local(d, p) == [id |-> d.id, kind |-> d.kind, path |-> p, remote |-> FALSE, redacted |-> FALSE]

Whole ==
    <<Local(ModelManifest, "model.json"), Local(EngineManifest, "engine.json"), Local(Native, "native.json"),
      Local(Backend("polygraphy"), "backend.json"), Local(ModelBuild, "build-1.json"),
      Local(EngineBuild, "build-2.json")>>

OnDisk ==
    "model.json" :> ModelManifest @@ "engine.json" :> EngineManifest @@ "native.json" :> Native
    @@ "backend.json" :> Backend("polygraphy") @@ "build-1.json" :> ModelBuild
    @@ "build-2.json" :> EngineBuild @@ "observation.json" :> Observed @@ "custom.json" :> Custom
    @@ "other-tool.json" :> Backend("other")
    @@ "model" :> weights @@ "engine" :> engine @@ "results" :> toolOutput

Without(k) == SelectSeq(Whole, LAMBDA r : r # Whole[k])

Loose ==
    <<Local(Observed, "observation.json"), Local(Custom, "custom.json"),
      [Local(Native, "native.json") EXCEPT !.remote = TRUE],
      [Local(ModelBuild, "build-1.json") EXCEPT !.redacted = TRUE],
      [Local(EngineBuild, "build-2.json") EXCEPT !.path = NotThere],
      Local(Observed, "observation.json")>>

\* A whole comparison; one without the build the engine's build came from; one
\* whose comparison names another tool; loose evidence of every other kind; the
\* same id for two references; a reference to nothing.
MCBundles ==
    {[references |-> r, files |-> OnDisk] :
        r \in {Whole, Without(5), Append(Without(4), Local(Backend("other"), "other-tool.json")), Loose,
               Append(Loose, Local(Native, "native.json")), <<Local(Observed, "missing.json")>>}}

MCDocuments == {OnDisk[p] : p \in DOMAIN OnDisk} \ {weights, engine, toolOutput}

MCBundleEdits ==
    {[path |-> p, content |-> tampered] : p \in {"engine", "results", "backend.json", "build-1.json"}}
        \cup {[path |-> "engine", content |-> engine], [path |-> "build-1.json", content |-> ModelBuild],
              [path |-> "model.json", content |-> EngineManifest]}

MCProfiles == <<"pass", "warn", "insufficient_power", "block", "error">>

MCExpectedData == {<<c, d>> : c, d \in Chunks}

MCNegatives == <<"tampered-id", "missing-evidence", "unknown-version", "decision-mismatch">>

Vector(text, status) == [text |-> text, status |-> status]

MCSuiteEdits ==
    {[bundle |-> "pass", content |-> c] :
        c \in {Vector("other", "pass"), Vector("normative", "warn"), Vector("normative", "pass"), Invalid}}
        \cup {[bundle |-> "block", content |-> c] :
                c \in {Vector("other", "block"), Vector("normative", "block"), NoDirectory}}
        \cup {[bundle |-> "missing-evidence", content |-> c] :
                c \in {Vector("other", "pass"), NoDirectory, Invalid}}

MCNames == [p \in {MCProfiles[k] : k \in 1 .. 5} |-> Vector("normative", p)]

MCReceipts ==
    {[names |-> MCNames, idHolds |-> TRUE], [names |-> MCNames, idHolds |-> FALSE],
     [names |-> [MCNames EXCEPT !["pass"] = Vector("other", "pass")], idHolds |-> TRUE]}
=============================================================================
