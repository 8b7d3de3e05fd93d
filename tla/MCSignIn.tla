------------------------------ MODULE MCSignIn ------------------------------
(* SignIn for TLC.  The client is killed at most MaxKills times, and the other     *)
(* device acts once at most, through the sessions it uses up.                      *)
EXTENDS SignIn

CONSTANT MaxKills
VARIABLE kills

HistInit == kills = 0
HistNext ==
  /\ kills' = IF ui'.pc = "read" /\ st' = "loading" /\ ui.pc # "read" THEN kills + 1 ELSE kills
  /\ kills' <= MaxKills
  /\ kills' > kills => kc # [acc |-> 0, ref |-> 0, bio |-> 0]
  \* screens that touch no session are walked through while nothing is in flight
  /\ scr' \in {"Welcome", "Register", "CheckEmail", "ForgotPassword", "EmailVerification",
                "PasswordResetConfirm"} /\ scr' # scr /\ st # "authenticated" => Quiet
  \* the forms that touch no session are sent while nothing is in flight, and Google
  \* from the registration screen
  /\ form'.call # form.call /\ form'.call \in {"register", "forgot", "verify", "start"} => Quiet
  /\ form'.call = "google" => scr = "Register"
MCInit == Init /\ HistInit
MCNext == Next /\ HistNext
MCSpec == MCInit /\ [][MCNext]_<<vars, kills>> /\ Fairness
=============================================================================
