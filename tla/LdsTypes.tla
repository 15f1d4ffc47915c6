------------------------------ MODULE LdsTypes ------------------------------
(* The structs of pkg/xds/types/lds, in the order of the file: the part of  *)
(* the Listener resource generated from the Envoy messages.  TypeGraph says *)
(* how a row is read.                                                       *)
EXTENDS TypeGraph, TLC

\* LDS.
LdsTypes1 ==
    "LDS" :> Struct({"Address", "ApiListener", "FilterChain",
        "Listener_DeprecatedV1", "Listener_FcdsConfig", "Metadata",
        "TypedExtensionConfig", "UdpListenerConfig", Raw}, {"AccessLog",
        "AdditionalAddress", "FilterChain", "ListenerFilter", "SocketOption"},
        {})

\* Mutant of LdsTypes2: the cycle through AndFilter is not cut.
LdsTypes2Recursive ==
    "AccessLog" :> Struct({"AccessLogFilter", Raw}, {}, {})
 @@ "AccessLogFilter" :> Struct({"AndFilter", Raw}, {}, {})
 @@ "AdditionalAddress" :> Struct({}, {}, {})

\* AccessLog to AdditionalAddress.
LdsTypes2 ==
    "AccessLog" :> Struct({"AccessLogFilter", Raw}, {}, {})
 @@ "AccessLogFilter" :> Struct({"DurationFilter", "ExtensionFilter",
        "GrpcStatusFilter", "HeaderFilter", "LogTypeFilter", "MetadataFilter",
        "ResponseFlagFilter", "RuntimeFilter", "StatusCodeFilter", Raw}, {},
        {})
 @@ "AdditionalAddress" :> Struct({"Address", "SocketOptionsOverride"}, {},
        {})

\* Address to BackoffStrategy.
LdsTypes3 ==
    "Address" :> Struct({"EnvoyInternalAddress", "Pipe", "SocketAddress"},
        {}, {})
 @@ "AndFilter" :> Struct({}, {"AccessLogFilter"}, {})
 @@ "ApiConfigSource" :> Struct({"RateLimitSettings"}, {"GrpcService",
        "TypedExtensionConfig"}, {})
 @@ "ApiListener" :> Struct({Raw}, {}, {})
 @@ "BackoffStrategy" :> Struct({}, {}, {})

\* CidrRange to EnvoyInternalAddress.
LdsTypes4 ==
    "CidrRange" :> Struct({}, {}, {})
 @@ "ComparisonFilter" :> Struct({"RuntimeUInt32"}, {}, {})
 @@ "ConfigSource" :> Struct({"ApiConfigSource", "PathConfigSource",
        "SelfConfigSource", Raw}, {}, {})
 @@ "DataSource" :> Struct({"WatchedDirectory"}, {}, {})
 @@ "DurationFilter" :> Struct({"ComparisonFilter"}, {}, {})
 @@ "EnvoyInternalAddress" :> Struct({}, {}, {})

\* ExtensionConfigSource to FilterChain.
LdsTypes5 ==
    "ExtensionConfigSource" :> Struct({"ConfigSource", Raw}, {}, {})
 @@ "ExtensionFilter" :> Struct({Raw}, {}, {})
 @@ "Filter" :> Struct({"ExtensionConfigSource", Raw}, {}, {})
 @@ "FilterChain" :> Struct({"FilterChainMatch", "Metadata",
        "TransportSocket"}, {"Filter"}, {})

\* FilterChainMatch to HeaderFilter.
LdsTypes6 ==
    "FilterChainMatch" :> Struct({}, {"CidrRange"}, {})
 @@ "FractionalPercent" :> Struct({}, {}, {})
 @@ "GrpcService" :> Struct({"RetryPolicy"}, {"HeaderValue"}, {})
 @@ "GrpcStatusFilter" :> Struct({}, {}, {})
 @@ "HeaderFilter" :> Struct({"HeaderMatcher"}, {}, {})

\* HeaderMatcher to Listener_DeprecatedV1.
LdsTypes7 ==
    "HeaderMatcher" :> Struct({}, {}, {})
 @@ "HeaderValue" :> Struct({}, {}, {})
 @@ "Int32Range" :> Struct({}, {}, {})
 @@ "ListenerFilter" :> Struct({"ExtensionConfigSource",
        "ListenerFilterChainMatchPredicate", Raw}, {}, {})
 @@ "ListenerFilterChainMatchPredicate" :> Struct({"Int32Range", Raw}, {},
        {})
 @@ "ListenerFilterChainMatchPredicate_MatchSet" :> Struct({},
        {"ListenerFilterChainMatchPredicate"}, {})
 @@ "Listener_DeprecatedV1" :> Struct({}, {}, {})

\* Listener_FcdsConfig to PathConfigSource.
LdsTypes8 ==
    "Listener_FcdsConfig" :> Struct({"ConfigSource"}, {}, {})
 @@ "LogTypeFilter" :> Struct({}, {}, {})
 @@ "Metadata" :> Struct({}, {}, {Raw})
 @@ "MetadataFilter" :> Struct({"MetadataMatcher"}, {}, {})
 @@ "MetadataMatcher" :> Struct({Raw}, {Raw}, {})
 @@ "OrFilter" :> Struct({}, {"AccessLogFilter"}, {})
 @@ "PathConfigSource" :> Struct({"WatchedDirectory"}, {}, {})

\* Pipe to ResponseFlagFilter.
LdsTypes9 ==
    "Pipe" :> Struct({}, {}, {})
 @@ "QuicProtocolOptions" :> Struct({"RuntimeFeatureFlag",
        "TypedExtensionConfig"}, {"SocketCmsgHeaders"}, {})
 @@ "RateLimitSettings" :> Struct({}, {}, {})
 @@ "ResponseFlagFilter" :> Struct({}, {}, {})

\* RetryPolicy to SocketAddress.
LdsTypes10 ==
    "RetryPolicy" :> Struct({"BackoffStrategy",
        "RetryPolicy_RetryPriority"}, {"RetryPolicy_RetryHostPredicate"}, {})
 @@ "RetryPolicy_RetryHostPredicate" :> Struct({Raw}, {}, {})
 @@ "RetryPolicy_RetryPriority" :> Struct({Raw}, {}, {})
 @@ "RuntimeFeatureFlag" :> Struct({}, {}, {})
 @@ "RuntimeFilter" :> Struct({"FractionalPercent"}, {}, {})
 @@ "RuntimeUInt32" :> Struct({}, {}, {})
 @@ "SelfConfigSource" :> Struct({}, {}, {})
 @@ "SocketAddress" :> Struct({}, {}, {})

\* SocketCmsgHeaders to TypedExtensionConfig.
LdsTypes11 ==
    "SocketCmsgHeaders" :> Struct({}, {}, {})
 @@ "SocketOption" :> Struct({"SocketOption_SocketType"}, {}, {})
 @@ "SocketOption_SocketType" :> Struct({Raw}, {}, {})
 @@ "SocketOptionsOverride" :> Struct({}, {"SocketOption"}, {})
 @@ "StatusCodeFilter" :> Struct({"ComparisonFilter"}, {}, {})
 @@ "TransportSocket" :> Struct({Raw}, {}, {})
 @@ "TypedExtensionConfig" :> Struct({Raw}, {}, {})

\* UdpListenerConfig to WatchedDirectory.
LdsTypes12 ==
    "UdpListenerConfig" :> Struct({"QuicProtocolOptions",
        "TypedExtensionConfig", "UdpSocketConfig"}, {}, {})
 @@ "UdpSocketConfig" :> Struct({}, {}, {})
 @@ "WatchedDirectory" :> Struct({}, {}, {})

\* All of them.
LdsTypesAll ==
    LdsTypes1 @@ LdsTypes2 @@ LdsTypes3 @@ LdsTypes4 @@ LdsTypes5 @@ LdsTypes6
        @@ LdsTypes7 @@ LdsTypes8 @@ LdsTypes9 @@ LdsTypes10 @@ LdsTypes11 @@
        LdsTypes12
=============================================================================
