-------------------------------- MODULE Rim2 --------------------------------
(***************************************************************************)
(* parse_rim2 (Cpp/src/internal/rim2.cpp): the checks of a signed release  *)
(* manifest, in order, and the service code that each failing one gives.   *)
(* A manifest is its architecture byte and the set of what else is wrong   *)
(* with it.                                                                *)
(***************************************************************************)
EXTENDS Naturals, Sequences

Check == {"size", "header", "body_size", "fields", "files", "trailing",
          "trailer", "identity", "arch", "root_signature", "manifest_signature"}

(* The order in which they are made: the body is read, with its strings,   *)
(* counts and file entries, then the trailer; then the release is compared *)
(* and the two signatures are verified.                                    *)
Checks == <<"size", "header", "body_size", "fields", "files", "trailing",
            "trailer", "identity", "arch", "root_signature", "manifest_signature">>

ServiceCode(c) ==
    CASE c \in {"identity", "arch"} -> "host_release_mismatch"
      [] c = "root_signature" -> "host_root_signature_invalid"
      [] c = "manifest_signature" -> "host_manifest_signature_invalid"
      [] OTHER -> "host_manifest_invalid"

(* The spellings of an architecture come down to two; 0 is every other     *)
(* name, and the empty one.                                                *)
arch_byte(arch) == CASE arch = "x86" -> 1 [] arch = "x64" -> 2 [] OTHER -> 0

(* The byte of the manifest may be any, 0 included: it is only compared.   *)
Wrong(m, arch) ==
    m.defects \cup (IF m.architecture = arch_byte(arch) THEN {} ELSE {"arch"})

(* The checks that a manifest fails, by their places in the order. *)
Failing(m, arch) == {i \in DOMAIN Checks : Checks[i] \in Wrong(m, arch)}

(* "ok", or the code of the first check that fails. *)
ParseRim2(m, arch) ==
    LET failing == Failing(m, arch)
    IN  IF failing = {} THEN "ok"
        ELSE ServiceCode(Checks[CHOOSE i \in failing : \A j \in failing : i <= j])
=============================================================================
