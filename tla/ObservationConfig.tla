-------------------------- MODULE ObservationConfig --------------------------
(***************************************************************************)
(* What GlobalConfig::initFromYaml (src/include/Globalcfg.hpp) accepts of  *)
(* config.yaml, and the directory it picks for the observation             *)
(* (src/include/ObservationId.hpp).  No state: RecorderStart uses it.      *)
(*                                                                         *)
(* A key is absent (Unset; for Observation_ID also null), cannot be read   *)
(* as the type it should have (Malformed: a YAML exception or the wrong    *)
(* kind of node), or has a value.  A name is a sequence of kinds of        *)
(* characters.                                                             *)
(***************************************************************************)
EXTENDS Integers, Sequences, FiniteSets, SequencesExt

CONSTANTS Unset, Malformed,
          MaxIdLength,       \* OBSERVATION_ID_MAX_LENGTH: 64
          TimestampLength    \* of 20260925T143012.317Z: 20

ASSUME NameAssumption ==
  /\ TimestampLength \in Nat /\ MaxIdLength \in Nat
  /\ 5 < TimestampLength /\ TimestampLength <= MaxIdLength

-----------------------------------------------------------------------------
(* ObservationId.hpp *)

SafeCharacters == {"letter", ".", "_", "-"}    \* a "letter" may be a digit

Text(length) == [i \in 1..length |-> "letter"]

ObservationIdIsValid(id) ==
  /\ Len(id) \in 1..MaxIdLength
  /\ \A i \in 1..Len(id) : id[i] \in SafeCharacters
  /\ id \notin {<<".">>, <<".", ".">>}

\* Every run of unsafe characters becomes one dash, but for those at the front.
Sanitize(done, c) ==
  IF c \in SafeCharacters THEN [text |-> Append(done.text, c), separator |-> FALSE]
  ELSE IF done.text # <<>> /\ ~done.separator
       THEN [text |-> Append(done.text, "-"), separator |-> TRUE]
       ELSE done

WithoutTrailingDashes(text) ==
  LET kept == {i \in 1..Len(text) : text[i] # "-"}
  IN SubSeq(text, 1, IF kept = {} THEN 0 ELSE Max(kept))

\* "UNKNOWN" when nothing is left.
DirectoryComponent(value) ==
  LET safe == FoldLeft(Sanitize, [text |-> <<>>, separator |-> FALSE], value).text
      text == WithoutTrailingDashes(safe)
  IN IF text = <<>> THEN Text(7) ELSE text

\* Mutant of AppendComponent: the underscore is not counted.
AppendOneMore(id, component) ==
  IF component = <<>> \/ Len(id) >= MaxIdLength - 1 THEN id
  ELSE LET safe == DirectoryComponent(component)
           available == MaxIdLength - Len(id)
       IN Append(id, "_") \o SubSeq(safe, 1, IF Len(safe) < available THEN Len(safe) ELSE available)

\* A component is left out when not even its first character would fit.
AppendComponent(id, component) ==
  IF component = <<>> \/ Len(id) >= MaxIdLength - 1 THEN id
  ELSE LET safe == DirectoryComponent(component)
           available == MaxIdLength - Len(id) - 1
       IN Append(id, "_") \o SubSeq(safe, 1, IF Len(safe) < available THEN Len(safe) ELSE available)

Timestamp == [Text(TimestampLength) EXCEPT ![TimestampLength - 4] = "."]

AutomaticDirectoryId(object, state) ==
  AppendComponent(AppendComponent(Timestamp, object), state)

-----------------------------------------------------------------------------
(* Globalcfg.hpp *)

\* source_on is compared in lower case with true, on, yes, 1 and their opposites.
SourceLabel(config) == IF config.source_on = "on" THEN Text(2) ELSE Text(3)

\* An empty Observation_ID counts as none.
Configured(config) == config.observation_id \notin {Unset, <<>>}

PortsAccepted(ports) ==
  /\ ports \notin {Unset, Malformed, <<>>}
  /\ \A i \in 1..Len(ports) : ports[i] \in 1..65535
  /\ \A i, k \in 1..Len(ports) : i # k => ports[i] # ports[k]

Accepted(config) ==
  /\ config.debug # Malformed
  /\ config.observation_mode \in {Unset, 1, 2}
  /\ PortsAccepted(config.result_ports)
  /\ config.continuum_inputs \in {Unset} \cup (1..64)
  /\ config.storage_folder \notin {Unset, Malformed, ""}
  /\ config.observation_id # Malformed
  /\ Configured(config) => ObservationIdIsValid(config.observation_id)
  /\ config.object # Malformed
  /\ config.source_on \in {"on", "off"}

Spectral(config) == config.observation_mode \in {Unset, 1}

\* The directory below Storage_folder.
ObservationDirectory(config) ==
  IF Configured(config) THEN config.observation_id
  ELSE AutomaticDirectoryId(IF config.object = Unset THEN <<>> ELSE config.object,
                            SourceLabel(config))

=============================================================================
