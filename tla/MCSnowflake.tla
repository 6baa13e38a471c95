----------------------------- MODULE MCSnowflake -----------------------------
(* Instances of Snowflake for TLC.                                          *)
EXTENDS Snowflake

CONSTANTS Api, Job

(* Machine ids told apart by the environment, one beyond the mask. *)
EnvSet == [b \in Binary |-> IF b = Api THEN 5 ELSE 2]

(* docker-compose.yml sets SNOWFLAKE_MACHINE_ID for neither binary. *)
EnvUnset == [b \in Binary |-> Unset]
=============================================================================
