------------------------------- MODULE MCReap ------------------------------
EXTENDS Reap

Course(callers, scoped, handles, between) ==
    [caller : callers, session : {scoped}, pidfd : {handles}, races : {between}]

MCCourses ==
    Course({"recover", "drive"}, TRUE, TRUE, {"setsid", "reuse"})
        \cup Course({"recover", "drive"}, TRUE, TRUE, {"fork"})
        \cup Course({"recover", "preserve", "stop", "terminate", "quiet", "drive"}, FALSE, TRUE,
                    {"fork", "setpgid", "setsid", "reuse"})
        \cup Course({"recover", "quiet", "drive"}, TRUE, FALSE, {})
        \cup Course({"stop"}, FALSE, TRUE, {"reuse", "tick"})
============================================================================
