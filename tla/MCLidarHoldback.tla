-------------------------- MODULE MCLidarHoldback --------------------------
(* TLC instance of LidarHoldback: a queue of two, four clouds whose ready    *)
(* stamps may go back, IMU stamps on both sides of every ready stamp.        *)
EXTENDS LidarHoldback

MCImuStamps == 0 .. 3
MCReadyStamps == 1 .. 3
=============================================================================
