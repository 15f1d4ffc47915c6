------------------------------ MODULE EdsTypes ------------------------------
(* The structs of pkg/xds/types/eds, in the order of the file: the part of  *)
(* the Endpoint resource generated from the Envoy messages.  TypeGraph says *)
(* how a row is read.                                                       *)
EXTENDS TypeGraph, TLC

\* EDS to BackoffStrategy.
EdsTypes1 ==
    "EDS" :> Struct({"ClusterLoadAssignment_Policy"},
        {"LocalityLbEndpoints"}, {"Endpoint"})
 @@ "Address" :> Struct({"EnvoyInternalAddress", "Pipe", "SocketAddress"},
        {}, {})
 @@ "ApiConfigSource" :> Struct({"RateLimitSettings"}, {"GrpcService",
        "TypedExtensionConfig"}, {})
 @@ "BackoffStrategy" :> Struct({}, {}, {})

\* BuildVersion to DataSource.
EdsTypes2 ==
    "BuildVersion" :> Struct({"SemanticVersion", Raw}, {}, {})
 @@ "ClusterLoadAssignment_Policy" :> Struct({},
        {"ClusterLoadAssignment_Policy_DropOverload"}, {})
 @@ "ClusterLoadAssignment_Policy_DropOverload" :> Struct({"FractionalPercent"}, {}, {})
 @@ "ConfigSource" :> Struct({"ApiConfigSource", "PathConfigSource",
        "SelfConfigSource", Raw}, {}, {})
 @@ "DataSource" :> Struct({"WatchedDirectory"}, {}, {})

\* Endpoint to FractionalPercent.
EdsTypes3 ==
    "Endpoint" :> Struct({"Address", "Endpoint_HealthCheckConfig"},
        {"Endpoint_AdditionalAddress"}, {})
 @@ "Endpoint_AdditionalAddress" :> Struct({"Address"}, {}, {})
 @@ "Endpoint_HealthCheckConfig" :> Struct({"Address"}, {}, {})
 @@ "EnvoyInternalAddress" :> Struct({}, {}, {})
 @@ "FractionalPercent" :> Struct({}, {}, {})

\* GrpcService to GrpcService_EnvoyGrpc.
EdsTypes4 ==
    "GrpcService" :> Struct({"RetryPolicy", Raw}, {"HeaderValue"}, {})
 @@ "GrpcService_EnvoyGrpc" :> Struct({"RetryPolicy"}, {}, {})

\* GrpcService_GoogleGrpc to GrpcService_GoogleGrpc_ChannelCredentials.
EdsTypes5 ==
    "GrpcService_GoogleGrpc" :> Struct({"GrpcService_GoogleGrpc_ChannelCredentials", Raw},
        {"GrpcService_GoogleGrpc_CallCredentials", Raw}, {})
 @@ "GrpcService_GoogleGrpc_CallCredentials" :> Struct({Raw}, {}, {})
 @@ "GrpcService_GoogleGrpc_ChannelArgs" :> Struct({}, {},
        {"GrpcService_GoogleGrpc_ChannelArgs_Value"})
 @@ "GrpcService_GoogleGrpc_ChannelArgs_Value" :> Struct({Raw}, {}, {})
 @@ "GrpcService_GoogleGrpc_ChannelCredentials" :> Struct({}, {}, {})

\* HeaderValue to HealthCheck_GrpcHealthCheck.
EdsTypes6 ==
    "HeaderValue" :> Struct({}, {}, {})
 @@ "HeaderValueOption" :> Struct({"HeaderValue"}, {}, {})
 @@ "HealthCheck_CustomHealthCheck" :> Struct({Raw}, {}, {})
 @@ "HealthCheck_GrpcHealthCheck" :> Struct({}, {"HeaderValueOption"}, {})

\* HealthCheck_HttpHealthCheck to HttpUri.
EdsTypes7 ==
    "HealthCheck_HttpHealthCheck" :> Struct({"HealthCheck_Payload",
        "StringMatcher"}, {"HeaderValueOption", "HealthCheck_Payload",
        "Int64Range"}, {})
 @@ "HealthCheck_Payload" :> Struct({}, {}, {})
 @@ "HealthCheck_TcpHealthCheck" :> Struct({"HealthCheck_Payload",
        "ProxyProtocolConfig"}, {"HealthCheck_Payload"}, {})
 @@ "HttpUri" :> Struct({}, {}, {})

\* Int64Range to LocalityLbEndpoints.
EdsTypes8 ==
    "Int64Range" :> Struct({}, {}, {})
 @@ "JsonFormatOptions" :> Struct({}, {}, {})
 @@ "LbEndpoint" :> Struct({"Endpoint", "Metadata"}, {}, {})
 @@ "LedsClusterLocalityConfig" :> Struct({"ConfigSource"}, {}, {})
 @@ "Locality" :> Struct({}, {}, {})
 @@ "LocalityLbEndpoints" :> Struct({"LedsClusterLocalityConfig",
        "Locality", "Metadata", Raw}, {"LbEndpoint"}, {})

\* LocalityLbEndpoints_LbEndpointList to RateLimitSettings.
EdsTypes9 ==
    "LocalityLbEndpoints_LbEndpointList" :> Struct({}, {"LbEndpoint"}, {})
 @@ "Metadata" :> Struct({}, {}, {Raw})
 @@ "PathConfigSource" :> Struct({"WatchedDirectory"}, {}, {})
 @@ "Pipe" :> Struct({}, {}, {})
 @@ "ProxyProtocolConfig" :> Struct({"ProxyProtocolPassThroughTLVs"},
        {"TlvEntry"}, {})
 @@ "ProxyProtocolPassThroughTLVs" :> Struct({}, {}, {})
 @@ "RateLimitSettings" :> Struct({}, {}, {})

\* RemoteDataSource to StringMatcher.
EdsTypes10 ==
    "RemoteDataSource" :> Struct({"HttpUri", "RetryPolicy"}, {}, {})
 @@ "RetryPolicy" :> Struct({"BackoffStrategy",
        "RetryPolicy_RetryPriority"}, {"RetryPolicy_RetryHostPredicate"}, {})
 @@ "RetryPolicy_RetryHostPredicate" :> Struct({Raw}, {}, {})
 @@ "RetryPolicy_RetryPriority" :> Struct({Raw}, {}, {})
 @@ "SelfConfigSource" :> Struct({}, {}, {})
 @@ "SemanticVersion" :> Struct({}, {}, {})
 @@ "SocketAddress" :> Struct({}, {}, {})
 @@ "StringMatcher" :> Struct({}, {}, {})

\* SubstitutionFormatString to WatchedDirectory.
EdsTypes11 ==
    "SubstitutionFormatString" :> Struct({"JsonFormatOptions"},
        {"TypedExtensionConfig"}, {})
 @@ "TlvEntry" :> Struct({"SubstitutionFormatString"}, {}, {})
 @@ "TypedExtensionConfig" :> Struct({Raw}, {}, {})
 @@ "WatchedDirectory" :> Struct({}, {}, {})

\* All of them.
EdsTypesAll ==
    EdsTypes1 @@ EdsTypes2 @@ EdsTypes3 @@ EdsTypes4 @@ EdsTypes5 @@ EdsTypes6
        @@ EdsTypes7 @@ EdsTypes8 @@ EdsTypes9 @@ EdsTypes10 @@ EdsTypes11
=============================================================================
