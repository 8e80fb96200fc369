---------------------------- MODULE MCCertificado ----------------------------
(* Instance of Certificado for TLC: no symmetry, the run checks liveness.    *)
EXTENDS Certificado

CONSTANTS c1, c2, p1, p2, p3

MCCerts     == {c1, c2}
MCProcessos == {p1, p2, p3}
=============================================================================
