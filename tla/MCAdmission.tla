---------------------------- MODULE MCAdmission ----------------------------
(***************************************************************************)
(* Instances of Admission: three requests to the store and one to a route  *)
(* beside the limiter.                                                     *)
(***************************************************************************)
EXTENDS Admission

CONSTANTS s1, s2, s3, h

MCThree    == {s1, s2, s3}
MCRequests == {s1, s2, s3, h}
============================================================================
