---------------------------- MODULE VaultSettings ----------------------------
(***************************************************************************)
(* What a Vault's settings may say, and how kb config edits them           *)
(* (kb-app/src/config, kb-core/src/config.rs and admission.rs).  A         *)
(* configuration is one layer of six; a layer is its schema version, the   *)
(* Vault identity it claims (0: none) and two of its settings.  An         *)
(* admission document maps the ids of the admitted directories to a path   *)
(* and a switch.  Texts are modelled by what they say: layout, comments    *)
(* and duplicate keys are left out.                                        *)
(***************************************************************************)
EXTENDS Integers, FiniteSets, Sequences

Unset == -1
Zero == 0                   \* parses in a file, and is no limit
Bad == 9                    \* a text that is no value of its setting
Settings == {"limit", "mode"}
Values == {Unset, Zero, 1, 2, Bad}
Current == 1                \* CURRENT_SCHEMA_VERSION

BuiltIn == [limit |-> 50, mode |-> 10]
Blank == [schema |-> Current, id |-> 0, limit |-> Unset, mode |-> Unset]

-----------------------------------------------------------------------------
(* Configuration.                                                          *)

\* load_file, parse_config_text: the whole layer parses, or none of it counts.
Parses(layer) == layer.schema = Current /\ \A k \in Settings : layer[k] # Bad

\* EffectiveConfig::apply, layer after layer: the last one that says something.
Effective(layers, k) ==
  LET saying == {n \in DOMAIN layers : layers[n][k] # Unset}
  IN IF saying = {} THEN BuiltIn[k]
     ELSE layers[CHOOSE n \in saying : \A o \in saying : o <= n][k]

\* The environment and the command line set values by name; one may be the name
\* of no setting.  Those of the environment are not looked at (environment_layer),
\* and nothing in such a layer falls back to another (parse_override_map).
Override == [limit : Values, mode : Values, unknown : BOOLEAN]
FromEnvironment(override) == [override EXCEPT !.unknown = FALSE]
OverrideParses(override) ==
  ~override.unknown /\ override.limit \notin {Zero, Bad} /\ override.mode \notin {Zero, Bad}
OverrideLayer(override) == [Blank EXCEPT !.limit = override.limit, !.mode = override.mode]

EffectiveValid(layers) == Effective(layers, "limit") # Zero   \* validate_effective

\* load_effective_config: user, Vault, local, then environment and command line.
Loads(files, overrides) ==
  LET given == <<FromEnvironment(overrides.environment), overrides.cli>>
  IN /\ \A n \in DOMAIN files : Parses(files[n])
     /\ files[2].id # 0 /\ files[1].id = 0 /\ files[3].id = 0
     /\ \A n \in DOMAIN given : OverrideParses(given[n])
     /\ EffectiveValid(files \o <<OverrideLayer(given[1]), OverrideLayer(given[2])>>)

\* edit_config: a setting of kb config, and a value that parses as its type.
ConfigEditable(key, value) == key \in Settings /\ value \notin {Bad, Zero}
ConfigEdited(before, key, value) == [before EXCEPT ![key] = value]

-----------------------------------------------------------------------------
(* Admission.  The paths that matter: two spellings of one directory, a    *)
(* directory of the framework, and one that is not there.                  *)

Framework == {"Wiki", ".kb", ".git"}
AdmissionPaths == {"Notes", "notes", "Absent"} \cup Framework
PortabilityKey(path) == IF path = "Notes" THEN "notes" ELSE path

\* AdmissionDocument::validate: no path twice on any platform, none of the
\* framework's, and each a directory of the Vault.
AdmissionValid(document, directories) ==
  LET paths == [id \in DOMAIN document |-> document[id].path]
  IN /\ \A i, j \in DOMAIN document :
          i # j => PortabilityKey(paths[i]) # PortabilityKey(paths[j])
     /\ \A id \in DOMAIN document : paths[id] \notin Framework /\ paths[id] \in directories

\* edit_admission: an id is added once; the others must be there.
AdmissionEditable(before, key, id) ==
  IF key = "add" THEN id \notin DOMAIN before ELSE id \in DOMAIN before

AdmissionEdited(before, key, id, path) ==
  CASE key = "add"     -> [i \in DOMAIN before \cup {id} |->
                            IF i = id THEN [path |-> path, enabled |-> TRUE] ELSE before[i]]
    [] key = "remove"  -> [i \in DOMAIN before \ {id} |-> before[i]]
    [] key = "enable"  -> [before EXCEPT ![id].enabled = TRUE]
    [] key = "disable" -> [before EXCEPT ![id].enabled = FALSE]
=============================================================================
