------------------------------ MODULE HttpClient ------------------------------
(***************************************************************************)
(* What the pages read of a failed request.  What may be undefined in the  *)
(* code is a set with at most one member.                                  *)
(***************************************************************************)
EXTENDS Integers

(* An error axios raised, with the status of the response behind it: none  *)
(* when the network failed or the caller aborted.                          *)
Answered(status) == [isAxiosError |-> TRUE, response |-> {status}]

Unanswered == [isAxiosError |-> TRUE, response |-> {}]

statusOfError(error) == IF error.isAxiosError THEN error.response ELSE {}

HTTP_BAD_REQUEST == 400
HTTP_UNAUTHORIZED == 401
HTTP_NOT_FOUND == 404
HTTP_CONFLICT == 409
=============================================================================
