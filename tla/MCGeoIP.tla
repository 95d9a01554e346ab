------------------------------- MODULE MCGeoIP -------------------------------
(* GeoIP for TLC: requests and databases are sets of model values. *)
EXTENDS GeoIP
=============================================================================
