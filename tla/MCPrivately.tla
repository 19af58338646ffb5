---------------------------- MODULE MCPrivately ----------------------------
(***************************************************************************)
(* A small instance of Privately: one WhatsApp group and one that lists    *)
(* nobody.  The admin saves settings that take private questions, that do  *)
(* not, or that opt the one person out.                                    *)
(***************************************************************************)
EXTENDS Privately

Open1 == [there |-> TRUE, enabled |-> TRUE, allow_dm |-> TRUE, quiet |-> TRUE, opt_out |-> {}]
MCForms == {Open1, [Open1 EXCEPT !.opt_out = People]}
=============================================================================
