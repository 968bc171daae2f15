----------------------------- MODULE MCReferrals -----------------------------
(* Referrals on two updates in flight, every combination of the feature     *)
(* flags, and slash commands where the captcha is off.                      *)
EXTENDS Referrals

MCScenarios == {<<FALSE, FALSE, FALSE>>, <<TRUE, FALSE, FALSE>>,
                <<FALSE, TRUE, TRUE>>, <<TRUE, TRUE, FALSE>>}
=============================================================================
