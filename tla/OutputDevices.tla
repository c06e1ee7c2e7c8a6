--------------------------- MODULE OutputDevices ---------------------------
(***************************************************************************)
(* How an output device is detected (devices/windows.rs), named to the     *)
(* user (cpal_io.rs), and found again by that name when the engine starts  *)
(* (event_loop.rs).  A device has no identity but its place in the list    *)
(* the host enumerates; a name is the pair of endpoint and driver, or the  *)
(* endpoint alone.                                                         *)
(***************************************************************************)

EXTENDS FiniteSetsExt, Sequences

CONSTANTS
  Enumerations,  \* lists of output devices the host may have; a device is
                 \*   [endpoint, driver, formats], NoDriver where it has none
  NoDriver,
  CableNames     \* names VB_CABLE_REGEX accepts

Items(list) == {list[i] : i \in DOMAIN list}

OutputDevs == UNION {Items(list) : list \in Enumerations}

ASSUME DevicesAssumption == Enumerations \subseteq Seq(OutputDevs)

(* What pick_output_config asks for. *)
Stereo48k == [channels |-> 2, f32 |-> TRUE, at48k |-> TRUE]

ComposedName(d) ==
  IF d.driver \in {NoDriver, d.endpoint} THEN <<d.endpoint>> ELSE <<d.endpoint, d.driver>>

BareName(d) == <<d.endpoint>>

Names == {ComposedName(d) : d \in OutputDevs}

EnumerateOutputs(list) == {ComposedName(d) : d \in Items(list)}

(* detect(): the first device of the right name, if it has the format; a   *)
(* second one of that name is not considered.                              *)
Matched(list) ==
  {i \in DOMAIN list : {ComposedName(list[i]), BareName(list[i])} \cap CableNames # {}}

Detected(list) == list[Min(Matched(list))]

Detects(list) == Matched(list) # {} /\ Stereo48k \in Detected(list).formats

Named(list, name) == {i \in DOMAIN list : ComposedName(list[i]) = name}

BareNamed(list, name) == {i \in DOMAIN list : BareName(list[i]) = name}

(* Mutant: a search by the name that names() gives, without the driver. *)
FindByBareName(list, name) == BareNamed(list, name)

(* find_output_device_by_name: the first of these is opened; devices of    *)
(* that bare name count only where none has the composed one.              *)
FindOutputByName(list, name) ==
  IF Named(list, name) # {} THEN Named(list, name) ELSE BareNamed(list, name)

(* The device build_streams_and_worker opens: the host's default, which    *)
(* may be any, where the name is not found.                                *)
ToOpen(list, name) ==
  LET found == FindOutputByName(list, name)
  IN IF found # {} THEN {list[Min(found)]} ELSE Items(list)

PickOutputConfig(d) == Stereo48k \in d.formats

=============================================================================
