---------------------------- MODULE MCMessageData ----------------------------
EXTENDS MessageData

MCPaths == {<<>>, <<"set">>, <<"whole">>, <<"route">>, <<"filter", "set">>,
            <<"tag", "set">>, <<"set", "whole">>, <<"route", "tag">>,
            <<"whole", "set">>, <<"whole", "tag">>}
=============================================================================
