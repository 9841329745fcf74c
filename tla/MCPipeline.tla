------------------------------ MODULE MCPipeline ------------------------------
EXTENDS MessagePipeline

Budget(closes, crashes, redis, service, expiries, changes, ticks) ==
    [closes |-> closes, crashes |-> crashes, redis |-> redis, service |-> service,
     expiries |-> expiries, changes |-> changes, ticks |-> ticks]
Scenario(msgs, said, faults) == [queue |-> msgs, status |-> said, budget |-> faults]
\* A device that moves, and stands still as its second message is delivered again:
\* a channel closes and Redis fails, or the process ends and the history expires;
\* the other kinds of messages, while the device service fails too; a device that
\* changes while hours pass.
MCScenarios ==
    {Scenario(<<1, 2, 3>>, "assigned", Budget(1, 0, 1, 0, 0, 0, 0)),
     Scenario(<<1, 2, 3>>, "assigned", Budget(0, 1, 0, 0, 1, 0, 0)),
     Scenario(<<4, 5>>, "assigned", Budget(1, 0, 1, 1, 0, 0, 0)),
     Scenario(<<6>>, "assigned", Budget(1, 0, 1, 1, 0, 1, 2)),
     Scenario(<<4>>, "hidden", Budget(0, 0, 1, 1, 0, 1, 0)),
     Scenario(<<2, 4>>, "deactivated", Budget(0, 0, 1, 0, 0, 2, 3)),
     Scenario(<<3>>, "assigned", Budget(1, 0, 1, 0, 0, 1, 2))}
\* Positions that are not used stand for those of an event and of the API.
MCKind == <<"uplink", "uplink", "uplink", "event", "uplink", "api">>
MCPlace == <<"p", "q", "q", "invalid", "unplaced", "invalid">>
=============================================================================
