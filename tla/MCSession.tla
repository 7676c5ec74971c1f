------------------------------- MODULE MCSession -------------------------------
(* TLC instance of Session: command lines that are refused at every stage and *)
(* ones that write, and a failure nobody sees in a script and a log.*)
EXTENDS Session

MCTopicType == [points |-> "PointCloud2", imu |-> "Imu"]

Blank ==
    [command |-> "help", readable |-> TRUE, given |-> {},
     mode |-> "observe", playRate |-> "positive", lidarTopic |-> "", imuTopic |-> ""]

InitLine ==
    [Blank EXCEPT !.command = "init",
                  !.given = {"bag", "lidar_topic", "imu_topic", "output_dir"},
                  !.lidarTopic = "points", !.imuTopic = "imu"]

MCSummarizeThis ==
    [Blank EXCEPT !.command = "summarize", !.given = {"diagnostics_bag", "output_dir"}]

MCOptions ==
    {Blank,
     [Blank EXCEPT !.command = "discover", !.given = {"bag"}],
     [Blank EXCEPT !.command = "discover", !.readable = FALSE],
     InitLine,
     [InitLine EXCEPT !.playRate = "nan"],
     [InitLine EXCEPT !.playRate = "zero"],
     [InitLine EXCEPT !.mode = "lenient"],
     [InitLine EXCEPT !.given = @ \ {"output_dir"}],
     [InitLine EXCEPT !.lidarTopic = "imu"],
     [InitLine EXCEPT !.imuTopic = "gyro"],
     MCSummarizeThis}

MCLossy == {RunAllObserve, Timeline}
=============================================================================
