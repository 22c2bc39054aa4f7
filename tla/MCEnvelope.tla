----------------------------- MODULE MCEnvelope -----------------------------
(***************************************************************************)
(* Two users and three contexts, one of them spelled like the context the  *)
(* library's HPKE derives for another: "app", "app/hpke", "app/hpke/kem".  *)
(* The segments tried also hold the version segment "v1", a '/', a NUL and *)
(* an empty one.                                                           *)
(***************************************************************************)
EXTENDS Envelope, WireFormats

App == <<19>>
PrintableBytes == 2 .. 19
VersionSegment == <<2>>
Tried == {App, W.hpke, W.kem, VersionSegment, <<19, 1, 6>>, <<0>>, << >>}
ThreePaths == {<<App>>, <<App, W.hpke>>, <<App, W.hpke, W.kem>>}
OwnPaths == <<App, App \o <<1>> \o W.hpke>>
TwoInfos == {<< >>, <<30>>}
TwoLens == <<1, 2>>
TwoAads == {<< >>, <<1, 2>>}

\* The bytes "/v1" and a NUL are the ones a binding could confuse.
Confusable == {<< >>, <<1, 2>>, <<0>>, <<0, 1, 2>>, <<1, 2, 0>>}

(***************************************************************************)
(* One form on the wire, and in hex, for every value, read back as it was  *)
(* written: to_wire and from_wire, encode and decode.  The one exception   *)
(* is the hex text of a wrapped key, which unwrap_dek_under_export_key     *)
(* trims: it has one form up to white space around it.  The formats depend *)
(* on no message, so they are looked at before the first context is built. *)
(***************************************************************************)
OneEncodingPerValue ==
    built = {} => OneEncodingPerMessage /\ WireRoundTrips /\ OneHexSpelling /\ OneDekSpelling
=============================================================================
