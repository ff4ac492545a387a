--------------------------- MODULE MCRecorderStart ---------------------------
(***************************************************************************)
(* RecorderStart with names of up to 10 characters after a timestamp of 6, *)
(* up to two ports and Writers, and three kinds of starts: every CPU mask  *)
(* with a good configuration, every object name of up to three characters  *)
(* and some longer, and every single flaw of a configuration.              *)
(***************************************************************************)
EXTENDS RecorderStart

Good ==
  [debug |-> Unset, observation_mode |-> 1, result_ports |-> <<1, 65535>>,
   continuum_inputs |-> 64, storage_folder |-> "folder", observation_id |-> <<"letter", ".">>,
   object |-> Unset, source_on |-> "on"]

Names(alphabet, length) == UNION {[1..n -> alphabet] : n \in 0..length}

Masks == {<<0>>, <<1, 4>>, <<0, 1, 2, 3, 4, 5>>, <<0, 1, 3, 4, 6, 7, 9>>, <<2, 3, 4, 5, 6, 7, 8, 9>>}

CpuStarts ==
  {[config |-> [Good EXCEPT !.observation_mode = m, !.result_ports = p], granted |-> g] :
     m \in {Unset, 1, 2}, p \in {<<60000>>, <<1, 65535>>}, g \in Masks}

Objects == {Unset, Text(4), Text(5), <<"letter", "other", "letter", "letter", "other">>}
           \cup Names({"letter", ".", "-", "other"}, 3)

NameConfigs ==
  {[Good EXCEPT !.observation_mode = 2, !.result_ports = <<60000>>, !.observation_id = id,
                !.object = object, !.source_on = source] :
     id \in {Unset, <<>>}, object \in Objects, source \in {"on", "off"}}

IdConfigs ==
  {[Good EXCEPT !.observation_mode = 2, !.result_ports = <<60000>>, !.observation_id = id] :
     id \in Names({"letter", ".", "other"}, 3) \cup {Text(10), Text(11)}}

FlawedConfigs ==
  {[Good EXCEPT !.debug = Malformed], [Good EXCEPT !.object = Malformed],
   [Good EXCEPT !.observation_id = Malformed]}
  \cup {[Good EXCEPT !.observation_mode = m] : m \in {Malformed, 0, 3}}
  \cup {[Good EXCEPT !.result_ports = p] :
          p \in {Unset, Malformed, <<>>, <<0>>, <<65536>>, <<1, 1>>, <<1, Malformed>>}}
  \cup {[Good EXCEPT !.continuum_inputs = n] : n \in {Malformed, 0, 65}}
  \cup {[Good EXCEPT !.storage_folder = f] : f \in {Unset, Malformed, ""}}
  \cup {[Good EXCEPT !.source_on = w] : w \in {Unset, Malformed, "neither"}}

MCStarts ==
  CpuStarts \cup
  {[config |-> c, granted |-> <<0, 1, 2, 3>>] : c \in NameConfigs \cup IdConfigs \cup FlawedConfigs}

=============================================================================
